---- MODULE Spec2Model ----
(***************************************************************************)
(* A model of manila's generic share driver                                *)
(* (manila/share/drivers/generic.py): the share lifecycle operations       *)
(* create_share, create_share_from_snapshot, ensure_share and delete_share,*)
(* the mount/unmount and attach/detach helpers they run under per-host     *)
(* locks, and the block-storage, compute and service-host behaviour they   *)
(* observe.  Each thread of the share service runs one driver call at a    *)
(* time; a call is a sequence of steps, one per lock operation, remote     *)
(* command or backend call of the code.                                    *)
(***************************************************************************)
EXTENDS Integers, Sequences, FiniteSets, TLC

(***************************************************************************)
(* Bounds of the model.                                                    *)
(***************************************************************************)
\* Volume ids the block-storage backend can hand out.
MaxVols == 2
\* Polling budgets, in poll intervals (time.sleep(1)); they stand for the
\* configured max_time_to_create_volume (180 s) and max_time_to_attach
\* (120 s), scaled down.
max_time_to_create_volume == 2
max_time_to_attach == 2
\* Calls made in one run of the specifications of the helpers (MountSpec,
\* AccessSpec, RevokeSpec, ExportSpec, ManageSpec, ClientSpec) and, per
\* thread, of WaitSpec.
MaxCalls == 2
\* Snapshot ids the block-storage backend can hand out.
MaxSnaps == 2
\* ssh sessions opened in one run, and calls of _ssh_exec in one run of
\* SshSpec.
MaxSessions == 3
MaxSshCalls == 3
\* Calls of report_state in one run of ServiceSpec.
MaxReports == 3

Procs == {"t1", "t2"}          \* threads of the share service
Hosts == {"h1", "h2"}          \* service instances (server['instance_id'])
Shares == {"s1", "s2"}         \* share['id'], also used as share['name']
VolIds == 1..MaxVols
SnapIds == 1..MaxSnaps
SessIds == 1..MaxSessions
NoSession == 0
Snapshots == {"n1", "n2"}      \* snapshot['id'] of share snapshots
\* access['access_to']: client addresses, as the text the helpers compare;
\* the second one extends the first.
ip_10_0_0_1 == <<"1", "0", ".", "0", ".", "0", ".", "1">>
ip_10_0_0_10 == <<"1", "0", ".", "0", ".", "0", ".", "1", "0">>
ip_127_0_0_1 == <<"1", "2", "7", ".", "0", ".", "0", ".", "1">>
Clients == {ip_10_0_0_1, ip_10_0_0_10, ip_127_0_0_1}
AccessTypes == {"ip", "user"}
AccessLevels == {"rw", "ro", "admin"}
NoVol == 0
None == "none"

\* share['share_proto'] of each share.
share_proto(share) == IF share = "s1" THEN "NFS" ELSE "CIFS"
\* server['public_address'] of a service instance.
public_address(server) == <<"addr", server>>

\* configuration.share_mount_path
share_mount_path == "/shares"

VARIABLES
    pc,        \* pc[p]: the step thread p is at
    op,        \* op[p]: the driver call p runs: kind and arguments
    loc,       \* loc[p]: the call's local variables
    log,       \* log[p]: remote commands and backend calls issued by the call
    held,      \* named locks currently held: pairs <<name, thread>>
    mtab,      \* mtab[h]: the mount table of host h, in mount order
    fstab,     \* fstab[h]: the permanent mount file of host h
    exports,   \* CIFS share sections defined on each host: pairs <<h, name>>
    vols,      \* vols[v]: the block-storage backend's record of volume v
    overlap,   \* overlap[p]: threads whose latest call ran concurrently with
               \* p's latest call
    ncalls,    \* driver calls started so far
    snaps,     \* snaps[k]: the block-storage backend's record of snapshot k
    nfs_exports,       \* NFS export table: <<host, path, client, level>>
    nfs_exports_file,  \* permanent NFS exports file of each host, likewise
    hosts_allow,       \* hosts_allow[<<h, name>>]: the "hosts allow" list of
                       \* the CIFS share section `name` on host h
    ssh_connections,   \* self.ssh_connections: the session recorded for each
                       \* host (NoSession when the host has no entry)
    sessions,          \* sessions[k]: the state of ssh session k
    model_disconnected,  \* Service.model_disconnected
    report_count       \* report_count of the service's database record

vars == <<pc, op, loc, log, held, mtab, fstab, exports, vols, overlap, ncalls,
          snaps, nfs_exports, nfs_exports_file, hosts_allow,
          ssh_connections, sessions, model_disconnected, report_count>>
serviceVars == <<model_disconnected, report_count>>
sshVars == <<ssh_connections, sessions>>
hostVars == <<mtab, fstab, exports>>
accessVars == <<nfs_exports, nfs_exports_file, hosts_allow>>

(***************************************************************************)
(* Values.                                                                 *)
(***************************************************************************)
\* The local variable `volume`: a volume as last returned by the backend.
\* volume['mountpoint'] is the device the volume is attached as.  The local
\* variable `volume_snapshot` holds a snapshot the same way.
Volume(id, status) == [id |-> id, status |-> status]
NoVolume == Volume(NoVol, None)
mountpoint(volume) ==
    IF volume.status = "in-use" THEN <<"/dev/vol", volume.id>> ELSE <<>>

\* The locals of a call: the volume it works on, the time its current wait
\* has lasted, the status its volume had when it called attach, whether its
\* mount command mounted the device, whether the share server was found
\* active, and what it raised (exception class and, for the exceptions of
\* the waits, message) or returned, and the "hosts allow" list it read;
\* for manage_existing, the mount path, the name of the volume as read and
\* the share size; for _ssh_exec, the session `ssh` and the session whose
\* transport it found inactive; for the calls of the NetApp client, the code
\* of the NaApiError its first request raised (e.code) and the code of the
\* NaApiError that left the call.
NoLoc == [volume |-> NoVolume, volume_snapshot |-> NoVolume, t |-> 0,
          attached_as |-> None, mounted |-> FALSE, active |-> TRUE,
          err |-> None, msg |-> None, location |-> <<>>, hosts |-> <<>>,
          mount_path |-> <<>>, name |-> <<>>, size |-> 0,
          ssh |-> NoSession, found_dead |-> NoSession,
          e_code |-> None, code |-> None]
\* The access argument of allow_access: type, level and client.
Access(type, level, to) ==
    [access_type |-> type, access_level |-> level, access_to |-> to]
NoAccess == Access(None, None, None)
NoOp == [kind |-> None, share |-> None, server |-> None, snapshot |-> None,
         access |-> NoAccess, force |-> FALSE, recreate |-> FALSE,
         export_location |-> <<>>, volume_id |-> NoVol, mode |-> None]

InCall(p) == pc[p] \notin {"idle", "done", "failed"}

(***************************************************************************)
(* Pure helpers of the driver.                                             *)
(***************************************************************************)
\* os.path.join(self.configuration.share_mount_path, share['name'])
get_mount_path(share) == <<share_mount_path, share>>

\* A scan that never finds the device.
is_device_mounted_broken(mount_path, mounts, volume) == FALSE

\* A scan that looks at the first line of the listing only.
is_device_mounted_first_line(mount_path, mounts, volume) ==
    /\ mounts # <<>>
    /\ mounts[1].path = mount_path
    /\ volume # NoVolume => mountpoint(volume) = mounts[1].dev

\* The scan of the mount listing: a line matches when its third column is the
\* mount path and, when a volume is given, its first column is the volume's
\* device.
is_device_mounted(mount_path, mounts, volume) ==
    \E i \in 1..Len(mounts) :
        /\ mounts[i].path = mount_path
        /\ volume # NoVolume => mountpoint(volume) = mounts[i].dev

\* A mounts lock shared by all hosts.
mounts_lock_name_broken(instance_id) == <<"generic_driver_mounts_">>

\* Lock names: 'generic_driver_mounts_%s' % instance_id and
\* 'generic_driver_attach_detach_%s' % instance_id.
mounts_lock_name(instance_id) == <<"generic_driver_mounts_", instance_id>>

attach_detach_lock_name(instance_id) ==
    <<"generic_driver_attach_detach_", instance_id>>

(***************************************************************************)
(* utils.synchronized(name): the lock is taken before the body runs and    *)
(* released when the body returns or raises.                               *)
(***************************************************************************)
\* A lock that any number of threads can take.
lock_free_broken(h, name) == TRUE

lock_free(h, name) == \A e \in h : e[1] # name

\* A lock that stays taken when the body raises.
synchronized_exit_broken(h, name, p, raised) ==
    IF raised THEN h ELSE h \ {<<name, p>>}

synchronized_exit(h, name, p, raised) == h \ {<<name, p>>}

Acquire(p, name) ==
    /\ lock_free(held, name)
    /\ held' = held \cup {<<name, p>>}

Holds(p, name) == <<name, p>> \in held

(***************************************************************************)
(* The service host: mount table and permanent mount file.                 *)
(***************************************************************************)
Entry(dev, path) == [dev |-> dev, path |-> path]

RECURSIVE LastAt(_, _)
\* Index of the most recent mount at `path`, 0 when there is none.
LastAt(mounts, path) ==
    IF mounts = <<>> THEN 0
    ELSE IF mounts[Len(mounts)].path = path THEN Len(mounts)
    ELSE LastAt(SubSeq(mounts, 1, Len(mounts) - 1), path)

RemoveAt(s, i) == SubSeq(s, 1, i - 1) \o SubSeq(s, i + 1, Len(s))

\* `mount <dev> <path>`: refused when that device is already mounted there.
CanMount(mounts, dev, path) ==
    \A i \in 1..Len(mounts) : ~(mounts[i].dev = dev /\ mounts[i].path = path)

\* `mount -a`: mounts the entries of the permanent file that are not mounted.
RECURSIVE MountAll(_, _)
MountAll(mounts, perm) ==
    IF perm = <<>> THEN mounts
    ELSE MountAll(IF CanMount(mounts, perm[1].dev, perm[1].path)
                      THEN Append(mounts, perm[1]) ELSE mounts,
                  Tail(perm))

(***************************************************************************)
(* Steps common to all calls.                                              *)
(***************************************************************************)
Goto(p, label) == pc' = [pc EXCEPT ![p] = label]
Log(p, event) == log' = [log EXCEPT ![p] = Append(@, event)]

\* A delete_share that ignores the failure of a teardown step and goes on to
\* deallocate.
on_raise_swallow(kind, at) ==
    IF kind = "delete_share" /\ at # "dealloc" /\ at # "dealloc_wait"
    THEN "dealloc" ELSE "failed"

\* A create_share that deallocates the volume when one of its steps fails.
on_raise_rollback(kind, at) ==
    IF kind = "create_share" /\ at # "dealloc" /\ at # "dealloc_wait"
    THEN "dealloc" ELSE "failed"

\* A create_share that unmounts the device when a step after the mount fails.
on_raise_unmount(kind, at) ==
    IF kind = "create_share"
       /\ at \in {"mnt_cmd", "sync_cp", "sync_mount_a", "export"}
    THEN "umnt_lock" ELSE "failed"

\* Where a call goes when the step at label `at` raises: no lifecycle call
\* catches an exception of its steps, so the call ends and the exception
\* reaches the driver's caller.
on_raise(kind, at) == "failed"

\* The step p is at raises an exception of class `err` with message `msg`.
RaiseMsg(p, err, msg) ==
    /\ pc' = [pc EXCEPT ![p] = on_raise(op[p].kind, pc[p])]
    /\ loc' = [loc EXCEPT ![p].err = err, ![p].msg = msg]

\* The step p is at raises `err`.
Raise(p, err) == RaiseMsg(p, err, None)

\* A wait loop without deadline.
deadline_reached_broken(t, budget) == FALSE

\* The loop condition of the waits, negated:
\*   while time.time() - t < budget: ... else: raise
deadline_reached(t, budget) == t >= budget

\* A new call starts on a thread that runs none; the threads whose calls are
\* in progress are recorded as concurrent with it.  Threads are
\* interchangeable: the first call of a run is taken to be made by thread t1.
BeginOp(p, call, volume, first) ==
    /\ ~InCall(p)
    /\ ncalls = 0 => p = "t1"
    /\ ncalls' = ncalls + 1
    /\ op' = [op EXCEPT ![p] = call]
    /\ loc' = [loc EXCEPT ![p] = [NoLoc EXCEPT !.volume = volume]]
    /\ log' = [log EXCEPT ![p] = <<>>]
    /\ pc' = [pc EXCEPT ![p] = first]
    /\ overlap' = [q \in Procs |->
                     IF q = p THEN {r \in Procs \ {p} : InCall(r)}
                     ELSE IF InCall(q) THEN overlap[q] \cup {p}
                     ELSE overlap[q] \ {p}]

Begin(p, kind, share, server, volume, first) ==
    BeginOp(p, [NoOp EXCEPT !.kind = kind, !.share = share, !.server = server],
            volume, first)

\* A create_share that skips the format step.
after_attach_broken(kind) == "mnt_lock"

\* Every call that attaches a volume formats it next.
after_attach_formats(kind) == "format"

\* Where a call continues when one of its helpers returns.
after_attach(kind) == IF kind = "create_share" THEN "format" ELSE "mnt_lock"
after_mount(kind) == IF kind = "_mount_device" THEN "done" ELSE "export"
after_unmount(kind) == IF kind = "_unmount_device" THEN "done" ELSE "det_lock"

Unmounting(p) == op[p].kind \in {"_unmount_device", "delete_share"}

(***************************************************************************)
(* _mount_device                                                           *)
(***************************************************************************)
mount_device_lock(p) ==
    /\ pc[p] = "mnt_lock"
    /\ Acquire(p, mounts_lock_name(op[p].server))
    /\ Goto(p, "mnt_probe")
    /\ UNCHANGED <<op, loc, log, overlap, ncalls, hostVars, vols,
                 snaps, accessVars, sshVars, serviceVars>>

\* if not self._is_device_mounted(mount_path, server_details, volume)
mount_device_probe(p) ==
    LET h == op[p].server
        name == mounts_lock_name(h)
    IN
    /\ pc[p] = "mnt_probe"
    /\ Log(p, "mount_list")
    /\ \E ok \in BOOLEAN :
         IF ~ok
         THEN /\ Raise(p, "ShareBackendException")
              /\ held' = synchronized_exit(held, name, p, TRUE)
         ELSE IF is_device_mounted(get_mount_path(op[p].share), mtab[h],
                                   loc[p].volume)
         THEN /\ Goto(p, after_mount(op[p].kind))
              /\ held' = synchronized_exit(held, name, p, FALSE)
              /\ UNCHANGED loc
         ELSE /\ Goto(p, "mnt_cmd")
              /\ UNCHANGED <<held, loc>>
    /\ UNCHANGED <<op, overlap, ncalls, hostVars, vols, snaps, accessVars,
                   sshVars, serviceVars>>

\* sudo mkdir -p <path> && sudo mount <dev> <path> && sudo chmod 777 <path>
mount_device_cmd(p) ==
    LET h == op[p].server
        name == mounts_lock_name(h)
        dev == mountpoint(loc[p].volume)
        path == get_mount_path(op[p].share)
    IN
    /\ pc[p] = "mnt_cmd"
    /\ Log(p, "mount_cmd")
    /\ \E outcome \in {"ok", "mount_failed", "chmod_failed"} :
         /\ outcome # "mount_failed" => CanMount(mtab[h], dev, path)
         /\ mtab' = IF outcome = "mount_failed" THEN mtab
                    ELSE [mtab EXCEPT ![h] = Append(@, Entry(dev, path))]
         /\ IF outcome = "ok"
            THEN /\ Goto(p, "sync_cp")
                 /\ loc' = [loc EXCEPT ![p].mounted = TRUE]
                 /\ UNCHANGED held
            ELSE /\ pc' = [pc EXCEPT ![p] = on_raise(op[p].kind, pc[p])]
                 /\ loc' = [loc EXCEPT ![p].err = "ShareBackendException",
                                       ![p].mounted = outcome = "chmod_failed"]
                 /\ held' = synchronized_exit(held, name, p, TRUE)
    /\ UNCHANGED <<op, overlap, ncalls, fstab, exports, vols,
                 snaps, accessVars, sshVars, serviceVars>>

(***************************************************************************)
(* _sync_mount_temp_and_perm_files, as called under the mounts lock by     *)
(* _mount_device and _unmount_device.                                      *)
(***************************************************************************)
\* A persist step whose cp leaves the permanent file as it was.
sync_mount_cp_broken(p) ==
    LET h == op[p].server
        name == mounts_lock_name(h)
    IN
    /\ pc[p] = "sync_cp"
    /\ Log(p, "cp")
    /\ \E ok \in BOOLEAN :
         IF ok
         THEN /\ Goto(p, "sync_mount_a")
              /\ UNCHANGED <<held, loc, fstab>>
         ELSE /\ Raise(p, "ShareBackendException")
              /\ held' = synchronized_exit(held, name, p, TRUE)
              /\ UNCHANGED fstab
    /\ UNCHANGED <<op, overlap, ncalls, mtab, exports, vols,
                 snaps, accessVars, sshVars, serviceVars>>

\* sudo cp <MOUNT_FILE_TEMP> <MOUNT_FILE>
sync_mount_cp(p) ==
    LET h == op[p].server
        name == mounts_lock_name(h)
    IN
    /\ pc[p] = "sync_cp"
    /\ Log(p, "cp")
    /\ \E ok \in BOOLEAN :
         IF ok
         THEN /\ fstab' = [fstab EXCEPT ![h] = mtab[h]]
              /\ Goto(p, "sync_mount_a")
              /\ UNCHANGED <<held, loc>>
         ELSE /\ Raise(p, "ShareBackendException")
              /\ held' = synchronized_exit(held, name, p, TRUE)
              /\ UNCHANGED fstab
    /\ UNCHANGED <<op, overlap, ncalls, mtab, exports, vols,
                 snaps, accessVars, sshVars, serviceVars>>

\* sudo mount -a
sync_mount_all(p) ==
    LET h == op[p].server
        name == mounts_lock_name(h)
    IN
    /\ pc[p] = "sync_mount_a"
    /\ Log(p, "mount_a")
    /\ \E ok \in BOOLEAN :
         IF ok
         THEN /\ mtab' = [mtab EXCEPT ![h] = MountAll(@, fstab[h])]
              /\ Goto(p, IF Unmounting(p) THEN after_unmount(op[p].kind)
                         ELSE after_mount(op[p].kind))
              /\ held' = synchronized_exit(held, name, p, FALSE)
              /\ UNCHANGED loc
         ELSE /\ Raise(p, "ShareBackendException")
              /\ held' = synchronized_exit(held, name, p, TRUE)
              /\ UNCHANGED mtab
    /\ UNCHANGED <<op, overlap, ncalls, fstab, exports, vols,
                 snaps, accessVars, sshVars, serviceVars>>

(***************************************************************************)
(* _unmount_device                                                         *)
(***************************************************************************)
unmount_device_lock(p) ==
    /\ pc[p] = "umnt_lock"
    /\ Acquire(p, mounts_lock_name(op[p].server))
    /\ Goto(p, "umnt_probe")
    /\ UNCHANGED <<op, loc, log, overlap, ncalls, hostVars, vols,
                 snaps, accessVars, sshVars, serviceVars>>

\* if self._is_device_mounted(mount_path, server_details)
unmount_device_probe(p) ==
    LET h == op[p].server
        name == mounts_lock_name(h)
    IN
    /\ pc[p] = "umnt_probe"
    /\ Log(p, "mount_list")
    /\ \E ok \in BOOLEAN :
         IF ~ok
         THEN /\ Raise(p, "ProcessExecutionError")
              /\ held' = synchronized_exit(held, name, p, TRUE)
         ELSE IF is_device_mounted(get_mount_path(op[p].share), mtab[h],
                                   NoVolume)
         THEN /\ Goto(p, "umnt_cmd")
              /\ UNCHANGED <<held, loc>>
         ELSE /\ Goto(p, after_unmount(op[p].kind))
              /\ held' = synchronized_exit(held, name, p, FALSE)
              /\ UNCHANGED loc
    /\ UNCHANGED <<op, overlap, ncalls, hostVars, vols, snaps, accessVars,
                   sshVars, serviceVars>>

\* sudo umount <path> && sudo rmdir <path>: umount detaches the most recent
\* mount at the path; rmdir fails while something is still mounted there.
unmount_device_cmd(p) ==
    LET h == op[p].server
        name == mounts_lock_name(h)
        path == get_mount_path(op[p].share)
        i == LastAt(mtab[h], path)
        rest == RemoveAt(mtab[h], i)
    IN
    /\ pc[p] = "umnt_cmd"
    /\ Log(p, "umount_cmd")
    /\ \E outcome \in {"ok", "umount_failed", "rmdir_failed"} :
         /\ outcome # "umount_failed" => i # 0
         /\ outcome = "ok" => LastAt(rest, path) = 0
         /\ mtab' = IF outcome = "umount_failed" THEN mtab
                    ELSE [mtab EXCEPT ![h] = rest]
         /\ IF outcome = "ok"
            THEN /\ Goto(p, "sync_cp")
                 /\ UNCHANGED <<held, loc>>
            ELSE /\ Raise(p, "ProcessExecutionError")
                 /\ held' = synchronized_exit(held, name, p, TRUE)
    /\ UNCHANGED <<op, overlap, ncalls, fstab, exports, vols,
                 snaps, accessVars, sshVars, serviceVars>>

(***************************************************************************)
(* Direct calls of the mount helpers, as the driver's callers and tests    *)
(* make them: any share, any host, any attached volume.                    *)
(***************************************************************************)
call_mount_device(p) ==
    \E share \in Shares, server \in Hosts, v \in VolIds :
        /\ ncalls < MaxCalls
        /\ Begin(p, "_mount_device", share, server, Volume(v, "in-use"),
                 "mnt_lock")
        /\ UNCHANGED <<held, hostVars, vols, snaps, accessVars, sshVars,
                       serviceVars>>

call_unmount_device(p) ==
    \E share \in Shares, server \in Hosts :
        /\ ncalls < MaxCalls
        /\ Begin(p, "_unmount_device", share, server, NoVolume, "umnt_lock")
        /\ UNCHANGED <<held, hostVars, vols, snaps, accessVars, sshVars,
                       serviceVars>>

(***************************************************************************)
(* The block-storage and compute backends.  Their operations complete      *)
(* asynchronously; the model lets a pending operation make progress at the *)
(* moment the driver next reads the volume.                                *)
(***************************************************************************)
VolRec(status, name, host) == [status |-> status, name |-> name, host |-> host]
Absent == VolRec("absent", <<>>, None)
\* A snapshot record: its status and name.
SnapRec(status, name) == [status |-> status, name |-> name]
NoSnap == SnapRec("absent", <<>>)

\* What a read of volume record r can find.
Progress(r) ==
    CASE r.status = "creating" ->
           {r, [r EXCEPT !.status = "available"], [r EXCEPT !.status = "error"]}
      [] r.status = "attaching" ->
           {r, [r EXCEPT !.status = "in-use"],
            [r EXCEPT !.status = "available", !.host = None],
            [r EXCEPT !.status = "error", !.host = None]}
      [] r.status = "detaching" ->
           {r, [r EXCEPT !.status = "available", !.host = None],
            [r EXCEPT !.status = "error"]}
      [] r.status = "deleting" -> {r, Absent}
      [] OTHER -> {r}

\* compute_api.instance_volumes_list(instance_id)
instance_volumes_list(instance_id) ==
    {v \in VolIds : /\ vols[v].host = instance_id
                    /\ vols[v].status \in {"in-use", "detaching", "error"}}

\* volume_api.get_all(context, {'name': volume_name}); the driver names the
\* volume of a share by volume_name_template % share id.
get_volume_name(share_id) == <<"manila-share-", share_id>>

volumes_by_name(name) ==
    {v \in VolIds : vols[v].status # "absent" /\ vols[v].name = name}

FreeVolIds == {v \in VolIds : vols[v].status = "absent"}

(***************************************************************************)
(* ensure_server: the decorator of create_share, create_share_from_snapshot,*)
(* ensure_share and allow_access.                                          *)
(***************************************************************************)
ensure_server(p) ==
    /\ pc[p] = "ensure_server"
    /\ \E available \in BOOLEAN :
         IF available
         THEN /\ Goto(p, CASE op[p].kind = "create_share" -> "alloc_create"
                           [] op[p].kind = "create_share_from_snapshot" ->
                                "snap_lookup"
                           [] op[p].kind = "allow_access" -> "allow_level"
                           [] OTHER -> "ensure_lookup")
              /\ UNCHANGED loc
         ELSE Raise(p, "ServiceInstanceUnavailable")
    /\ UNCHANGED <<op, log, overlap, ncalls, held, hostVars, vols,
                 snaps, accessVars, sshVars, serviceVars>>

(***************************************************************************)
(* _allocate_container                                                     *)
(***************************************************************************)
\* volume_snapshot = self._get_volume_snapshot(context, snapshot['id'])
allocate_container_snapshot(p) ==
    /\ pc[p] = "snap_lookup"
    /\ \E ambiguous \in BOOLEAN :
         IF ambiguous THEN Raise(p, "ManilaException")
         ELSE Goto(p, "alloc_create") /\ UNCHANGED loc
    /\ UNCHANGED <<op, log, overlap, ncalls, held, hostVars, vols,
                 snaps, accessVars, sshVars, serviceVars>>

\* volume = self.volume_api.create(...); t = time.time()
allocate_container_create(p) ==
    /\ pc[p] = "alloc_create"
    /\ Log(p, "volume_create")
    /\ \E ok \in BOOLEAN :
         IF ok /\ FreeVolIds # {}
         THEN LET v == CHOOSE x \in FreeVolIds : \A y \in FreeVolIds : x <= y
              IN /\ vols' = [vols EXCEPT ![v] =
                               VolRec("creating",
                                      get_volume_name(op[p].share), None)]
                 /\ loc' = [loc EXCEPT ![p].volume = Volume(v, "creating"),
                                       ![p].t = 0]
                 /\ Goto(p, "alloc_wait")
         ELSE /\ Raise(p, "BackendError")
              /\ UNCHANGED vols
    /\ UNCHANGED <<op, overlap, ncalls, held, hostVars, snaps, accessVars,
                   sshVars, serviceVars>>

\* One turn of the loop
\*   while time.time() - t < max_time_to_create_volume: ... else: raise
allocate_container_wait(p) ==
    LET volume == loc[p].volume IN
    /\ pc[p] = "alloc_wait"
    /\ IF deadline_reached(loc[p].t, max_time_to_create_volume)
       THEN /\ RaiseMsg(p, "ManilaException",
                        "Volume have not been created in %ss. Giving up")
            /\ UNCHANGED vols
       ELSE IF volume.status = "available"
       THEN Goto(p, "att_lock") /\ UNCHANGED <<loc, vols>>
       ELSE IF volume.status = "error"
       THEN /\ RaiseMsg(p, "ManilaException", "Failed to create volume")
            /\ UNCHANGED vols
       ELSE \E t \in (loc[p].t + 1)..max_time_to_create_volume,
               r \in Progress(vols[volume.id]) :
              /\ vols' = [vols EXCEPT ![volume.id] = r]
              /\ IF r = Absent
                 THEN Raise(p, "VolumeNotFound")
                 ELSE /\ loc' = [loc EXCEPT
                                   ![p].volume = Volume(volume.id, r.status),
                                   ![p].t = t]
                      /\ UNCHANGED pc
    /\ UNCHANGED <<op, log, overlap, ncalls, held, hostVars,
                 snaps, accessVars, sshVars, serviceVars>>

(***************************************************************************)
(* _attach_volume                                                          *)
(***************************************************************************)
attach_volume_lock(p) ==
    /\ pc[p] = "att_lock"
    /\ Acquire(p, attach_detach_lock_name(op[p].server))
    /\ Goto(p, "att_check")
    /\ UNCHANGED <<op, loc, log, overlap, ncalls, hostVars, vols,
                 snaps, accessVars, sshVars, serviceVars>>

\* A do_attach that requests the attach whatever the status of the volume.
do_attach_call_broken(p) ==
    LET h == op[p].server
        name == attach_detach_lock_name(h)
        volume == loc[p].volume
    IN
    /\ pc[p] = "att_check"
    /\ Log(p, "volume_attach")
    /\ \E ok \in BOOLEAN :
         IF ok /\ vols[volume.id].status = "available"
         THEN /\ vols' = [vols EXCEPT ![volume.id].status = "attaching",
                                      ![volume.id].host = h]
              /\ loc' = [loc EXCEPT ![p].t = 0,
                                    ![p].attached_as = volume.status]
              /\ Goto(p, "att_wait")
              /\ UNCHANGED held
         ELSE /\ pc' = [pc EXCEPT ![p] = on_raise(op[p].kind, pc[p])]
              /\ loc' = [loc EXCEPT ![p].err = "BackendError",
                                    ![p].attached_as = volume.status]
              /\ held' = synchronized_exit(held, name, p, TRUE)
              /\ UNCHANGED vols
    /\ UNCHANGED <<op, overlap, ncalls, hostVars, snaps, accessVars, sshVars,
                   serviceVars>>

\* The head of do_attach: a volume that is 'in-use' must be attached to this
\* instance; any other volume is attached.  The compute backend accepts the
\* attach of an 'available' volume only.
do_attach_call(p) ==
    LET h == op[p].server
        name == attach_detach_lock_name(h)
        volume == loc[p].volume
    IN
    /\ pc[p] = "att_check"
    /\ IF volume.status = "in-use"
       THEN /\ \E ok \in BOOLEAN :
                 IF ~ok
                 THEN /\ Raise(p, "BackendError")
                      /\ held' = synchronized_exit(held, name, p, TRUE)
                 ELSE IF volume.id \in instance_volumes_list(h)
                 THEN /\ Goto(p, after_attach(op[p].kind))
                      /\ held' = synchronized_exit(held, name, p, FALSE)
                      /\ UNCHANGED loc
                 ELSE /\ Raise(p, "ManilaException")
                      /\ held' = synchronized_exit(held, name, p, TRUE)
            /\ UNCHANGED <<log, vols>>
       ELSE /\ Log(p, "volume_attach")
            /\ \E ok \in BOOLEAN :
                 IF ok /\ vols[volume.id].status = "available"
                 THEN /\ vols' = [vols EXCEPT ![volume.id].status = "attaching",
                                              ![volume.id].host = h]
                      /\ loc' = [loc EXCEPT ![p].t = 0,
                                            ![p].attached_as = volume.status]
                      /\ Goto(p, "att_wait")
                      /\ UNCHANGED held
                 ELSE /\ pc' = [pc EXCEPT ![p] = on_raise(op[p].kind, pc[p])]
                      /\ loc' = [loc EXCEPT ![p].err = "BackendError",
                                            ![p].attached_as = volume.status]
                      /\ held' = synchronized_exit(held, name, p, TRUE)
                      /\ UNCHANGED vols
    /\ UNCHANGED <<op, overlap, ncalls, hostVars, snaps, accessVars, sshVars,
                   serviceVars>>

\* One turn of the loop
\*   while time.time() - t < max_time_to_attach: ... else: raise
do_attach_wait(p) ==
    LET h == op[p].server
        name == attach_detach_lock_name(h)
        volume == loc[p].volume
    IN
    /\ pc[p] = "att_wait"
    /\ IF deadline_reached(loc[p].t, max_time_to_attach)
       THEN /\ RaiseMsg(p, "ManilaException",
                        "Volume have not been attached in %ss. Giving up")
            /\ held' = synchronized_exit(held, name, p, TRUE)
            /\ UNCHANGED vols
       ELSE \E t \in (loc[p].t + 1)..max_time_to_attach,
               r \in Progress(vols[volume.id]) :
              /\ vols' = [vols EXCEPT ![volume.id] = r]
              /\ IF r.status = "in-use"
                 THEN /\ loc' = [loc EXCEPT
                                   ![p].volume = Volume(volume.id, r.status)]
                      /\ Goto(p, after_attach(op[p].kind))
                      /\ held' = synchronized_exit(held, name, p, FALSE)
                 ELSE IF r.status # "attaching"
                 THEN /\ pc' = [pc EXCEPT ![p] =
                                     on_raise(op[p].kind, pc[p])]
                      /\ loc' = [loc EXCEPT
                                   ![p].volume = Volume(volume.id, r.status),
                                   ![p].err = "ManilaException",
                                   ![p].msg = "Failed to attach volume %s"]
                      /\ held' = synchronized_exit(held, name, p, TRUE)
                 ELSE /\ loc' = [loc EXCEPT
                                   ![p].volume = Volume(volume.id, r.status),
                                   ![p].t = t]
                      /\ UNCHANGED <<pc, held>>
    /\ UNCHANGED <<op, log, overlap, ncalls, hostVars, snaps, accessVars,
                   sshVars, serviceVars>>

(***************************************************************************)
(* _format_device                                                          *)
(***************************************************************************)
\* sudo mkfs.<fstype> <volume['mountpoint']>
format_device(p) ==
    /\ pc[p] = "format"
    /\ Log(p, "mkfs")
    /\ \E ok \in BOOLEAN :
         IF ok THEN Goto(p, "mnt_lock") /\ UNCHANGED loc
         ELSE Raise(p, "ProcessExecutionError")
    /\ UNCHANGED <<op, overlap, ncalls, held, hostVars, vols,
                 snaps, accessVars, sshVars, serviceVars>>

(***************************************************************************)
(* The export helpers, as far as the lifecycle calls use them.             *)
(***************************************************************************)
\* NFSHelper.create_export: ':'.join([server['public_address'],
\*     os.path.join(self.configuration.share_mount_path, share_name)])
nfs_create_export(server, share_name) ==
    <<public_address(server), ":", <<share_mount_path, share_name>>>>

\* CIFSHelper.create_export returns '\\\\%s\\%s' % (public_address, name).
cifs_export_location(server, share_name) ==
    <<"\\\\", public_address(server), "\\", share_name>>

\* An export helper that always recreates.
create_export_broken(p) ==
    LET h == op[p].server
        share_name == op[p].share
        recreate == TRUE
        exists == <<h, share_name>> \in exports
    IN
    /\ pc[p] = "export"
    /\ Log(p, "create_export")
    /\ IF share_proto(op[p].share) = "NFS"
       THEN /\ loc' = [loc EXCEPT
                         ![p].location = nfs_create_export(h, share_name)]
            /\ Goto(p, "done")
            /\ UNCHANGED <<exports, hosts_allow>>
       ELSE \E shown \in BOOLEAN, failing \in {"none", "delshare", "addshare",
                                              "setparm"} :
              /\ shown => exists
              /\ failing = "delshare" => shown /\ recreate
              /\ ~shown /\ exists => failing = "addshare"
              /\ IF shown /\ ~recreate
                 THEN /\ failing = "none"
                      /\ Raise(p, "ShareBackendException")
                      /\ UNCHANGED <<exports, hosts_allow>>
                 ELSE /\ exports' =
                           IF failing = "delshare" THEN exports
                           ELSE IF failing = "addshare"
                           THEN IF shown THEN exports \ {<<h, share_name>>}
                                ELSE exports
                           ELSE exports \cup {<<h, share_name>>}
                      /\ \E allow \in {<<>>, <<ip_127_0_0_1>>} :
                           /\ failing = "none" => allow # <<>>
                           /\ failing = "addshare" => allow = <<>>
                           /\ hosts_allow' =
                                IF failing = "delshare"
                                   \/ (failing = "addshare" /\ ~shown)
                                THEN hosts_allow
                                ELSE [hosts_allow EXCEPT
                                        ![<<h, share_name>>] = allow]
                      /\ IF failing = "none"
                         THEN /\ loc' = [loc EXCEPT ![p].location =
                                           cifs_export_location(h, share_name)]
                              /\ Goto(p, "done")
                         ELSE Raise(p, "ProcessExecutionError")
    /\ UNCHANGED <<op, overlap, ncalls, held, mtab, fstab, vols,
                 snaps, nfs_exports, nfs_exports_file, sshVars, serviceVars>>

\* helper.create_export(server_details, share['name'][, recreate=True]).
\* The CIFS helper runs showshare, then addshare (after delshare when the
\* section exists and recreate is set), then the setparm commands, which set
\* "hosts allow" to 127.0.0.1; showshare failing is read as "the section does
\* not exist".  A section that is deleted loses its parameters, and the chain
\* of setparm commands can fail before or after "hosts allow" is set.
create_export(p) ==
    LET h == op[p].server
        share_name == op[p].share
        recreate == op[p].kind = "ensure_share" \/ op[p].recreate
        exists == <<h, share_name>> \in exports
    IN
    /\ pc[p] = "export"
    /\ Log(p, "create_export")
    /\ IF share_proto(op[p].share) = "NFS"
       THEN /\ loc' = [loc EXCEPT
                         ![p].location = nfs_create_export(h, share_name)]
            /\ Goto(p, "done")
            /\ UNCHANGED <<exports, hosts_allow>>
       ELSE \E shown \in BOOLEAN, failing \in {"none", "delshare", "addshare",
                                              "setparm"} :
              /\ shown => exists
              /\ failing = "delshare" => shown /\ recreate
              /\ ~shown /\ exists => failing = "addshare"
              /\ IF shown /\ ~recreate
                 THEN /\ failing = "none"
                      /\ Raise(p, "ShareBackendException")
                      /\ UNCHANGED <<exports, hosts_allow>>
                 ELSE /\ exports' =
                           IF failing = "delshare" THEN exports
                           ELSE IF failing = "addshare"
                           THEN IF shown THEN exports \ {<<h, share_name>>}
                                ELSE exports
                           ELSE exports \cup {<<h, share_name>>}
                      /\ \E allow \in {<<>>, <<ip_127_0_0_1>>} :
                           /\ failing = "none" => allow # <<>>
                           /\ failing = "addshare" => allow = <<>>
                           /\ hosts_allow' =
                                IF failing = "delshare"
                                   \/ (failing = "addshare" /\ ~shown)
                                THEN hosts_allow
                                ELSE [hosts_allow EXCEPT
                                        ![<<h, share_name>>] = allow]
                      /\ IF failing = "none"
                         THEN /\ loc' = [loc EXCEPT ![p].location =
                                           cifs_export_location(h, share_name)]
                              /\ Goto(p, "done")
                         ELSE Raise(p, "ProcessExecutionError")
    /\ UNCHANGED <<op, overlap, ncalls, held, mtab, fstab, vols,
                 snaps, nfs_exports, nfs_exports_file, sshVars, serviceVars>>

\* helper.remove_export(server_details, share['name']).  The NFS helper does
\* nothing; the CIFS helper runs delshare and, when that fails, smbcontrol
\* close-share, whose failure is raised.
remove_export(p) ==
    LET h == op[p].server
        share_name == op[p].share
    IN
    /\ pc[p] = "rm_export"
    /\ Log(p, "remove_export")
    /\ IF share_proto(op[p].share) = "NFS"
       THEN /\ Goto(p, "umnt_lock")
            /\ UNCHANGED <<loc, exports, hosts_allow>>
       ELSE \E outcome \in {"deleted", "closed", "failed"} :
              /\ outcome = "deleted" => <<h, share_name>> \in exports
              /\ exports' = IF outcome = "deleted"
                            THEN exports \ {<<h, share_name>>} ELSE exports
              /\ hosts_allow' = IF outcome = "deleted"
                                THEN [hosts_allow EXCEPT
                                        ![<<h, share_name>>] = <<>>]
                                ELSE hosts_allow
              /\ IF outcome = "failed"
                 THEN Raise(p, "ProcessExecutionError")
                 ELSE Goto(p, "umnt_lock") /\ UNCHANGED loc
    /\ UNCHANGED <<op, overlap, ncalls, held, mtab, fstab, vols,
                 snaps, nfs_exports, nfs_exports_file, sshVars, serviceVars>>

(***************************************************************************)
(* _get_volume                                                             *)
(***************************************************************************)
\* The outcomes of self._get_volume(context, share_id): "none" when no volume
\* carries the share's volume name, "ambiguous" when several do, else the
\* volume.
\* A lookup that picks one of several volumes of the same name.
get_volume_broken(share_id) ==
    LET found == volumes_by_name(get_volume_name(share_id)) IN
    IF found # {} THEN CHOOSE v \in found : TRUE ELSE NoVol

get_volume(share_id) ==
    LET found == volumes_by_name(get_volume_name(share_id)) IN
    IF Cardinality(found) = 1 THEN CHOOSE v \in found : TRUE
    ELSE IF Cardinality(found) > 1 THEN -1
    ELSE NoVol

(***************************************************************************)
(* ensure_share                                                            *)
(***************************************************************************)
\* An ensure_share that allocates a volume when the share has none.
ensure_share_lookup_broken(p) ==
    LET v == get_volume(op[p].share) IN
    /\ pc[p] = "ensure_lookup"
    /\ \E ok \in BOOLEAN :
         IF ~ok THEN Raise(p, "BackendError") /\ UNCHANGED vols
         ELSE IF v = -1 THEN Raise(p, "ManilaException") /\ UNCHANGED vols
         ELSE IF v = NoVol
         THEN Goto(p, "alloc_create") /\ UNCHANGED <<loc, vols>>
         ELSE \E r \in Progress(vols[v]) \ {Absent} :
                /\ vols' = [vols EXCEPT ![v] = r]
                /\ loc' = [loc EXCEPT ![p].volume = Volume(v, r.status)]
                /\ Goto(p, "att_lock")
    /\ UNCHANGED <<op, log, overlap, ncalls, held, hostVars,
                 snaps, accessVars, sshVars, serviceVars>>

\* volume = self._get_volume(context, share['id']); if volume: ...
ensure_share_lookup(p) ==
    LET v == get_volume(op[p].share) IN
    /\ pc[p] = "ensure_lookup"
    /\ \E ok \in BOOLEAN :
         IF ~ok THEN Raise(p, "BackendError") /\ UNCHANGED vols
         ELSE IF v = -1 THEN Raise(p, "ManilaException") /\ UNCHANGED vols
         ELSE IF v = NoVol THEN Goto(p, "done") /\ UNCHANGED <<loc, vols>>
         ELSE \E r \in Progress(vols[v]) \ {Absent} :
                /\ vols' = [vols EXCEPT ![v] = r]
                /\ loc' = [loc EXCEPT ![p].volume = Volume(v, r.status)]
                /\ Goto(p, "att_lock")
    /\ UNCHANGED <<op, log, overlap, ncalls, held, hostVars,
                 snaps, accessVars, sshVars, serviceVars>>

(***************************************************************************)
(* delete_share                                                            *)
(***************************************************************************)
\* A delete_share that tears down whatever the state of the host.
after_check_server_broken(active) == "rm_export"

\* if self._is_share_server_active(context, share_server): ...
after_check_server(active) == IF active THEN "rm_export" ELSE "dealloc"

delete_share_check_server(p) ==
    /\ pc[p] = "check_server"
    /\ \E active \in BOOLEAN :
         /\ loc' = [loc EXCEPT ![p].active = active]
         /\ Goto(p, after_check_server(active))
    /\ UNCHANGED <<op, log, overlap, ncalls, held, hostVars, vols,
                 snaps, accessVars, sshVars, serviceVars>>

(***************************************************************************)
(* _detach_volume                                                          *)
(***************************************************************************)
\* A detach that does not wait for the lock.
detach_volume_lock_broken(p) ==
    /\ pc[p] = "det_lock"
    /\ held' = held \cup {<<attach_detach_lock_name(op[p].server), p>>}
    /\ Goto(p, "det_check")
    /\ UNCHANGED <<op, loc, log, overlap, ncalls, hostVars, vols,
                 snaps, accessVars, sshVars, serviceVars>>

detach_volume_lock(p) ==
    /\ pc[p] = "det_lock"
    /\ Acquire(p, attach_detach_lock_name(op[p].server))
    /\ Goto(p, "det_check")
    /\ UNCHANGED <<op, loc, log, overlap, ncalls, hostVars, vols,
                 snaps, accessVars, sshVars, serviceVars>>

\* The head of do_detach: the share's volume is detached when it is in the
\* instance's list of attached volumes.
do_detach_call(p) ==
    LET h == op[p].server
        name == attach_detach_lock_name(h)
        v == get_volume(op[p].share)
    IN
    /\ pc[p] = "det_check"
    /\ \E ok \in BOOLEAN :
         IF ~ok
         THEN /\ Raise(p, "BackendError")
              /\ held' = synchronized_exit(held, name, p, TRUE)
              /\ UNCHANGED <<log, vols>>
         ELSE IF v = -1
         THEN /\ Raise(p, "ManilaException")
              /\ held' = synchronized_exit(held, name, p, TRUE)
              /\ UNCHANGED <<log, vols>>
         ELSE IF v # NoVol /\ v \in instance_volumes_list(h)
         THEN /\ Log(p, "volume_detach")
              /\ \E accepted \in BOOLEAN :
                   IF accepted /\ vols[v].status = "in-use"
                   THEN /\ vols' = [vols EXCEPT ![v].status = "detaching"]
                        /\ loc' = [loc EXCEPT
                                     ![p].volume = Volume(v, "in-use"),
                                     ![p].t = 0]
                        /\ Goto(p, "det_wait")
                        /\ UNCHANGED held
                   ELSE /\ Raise(p, "BackendError")
                        /\ held' = synchronized_exit(held, name, p, TRUE)
                        /\ UNCHANGED vols
         ELSE /\ Goto(p, "dealloc")
              /\ held' = synchronized_exit(held, name, p, FALSE)
              /\ UNCHANGED <<loc, log, vols>>
    /\ UNCHANGED <<op, overlap, ncalls, hostVars, snaps, accessVars, sshVars,
                   serviceVars>>

\* One turn of the loop
\*   while time.time() - t < max_time_to_attach: ... else: raise
do_detach_wait(p) ==
    LET h == op[p].server
        name == attach_detach_lock_name(h)
        volume == loc[p].volume
    IN
    /\ pc[p] = "det_wait"
    /\ IF deadline_reached(loc[p].t, max_time_to_attach)
       THEN /\ RaiseMsg(p, "ManilaException",
                        "Volume have not been detached in %ss. Giving up")
            /\ held' = synchronized_exit(held, name, p, TRUE)
            /\ UNCHANGED vols
       ELSE \E t \in (loc[p].t + 1)..max_time_to_attach,
               r \in Progress(vols[volume.id]) :
              /\ vols' = [vols EXCEPT ![volume.id] = r]
              /\ IF r.status \in {"available", "error"}
                 THEN /\ loc' = [loc EXCEPT
                                   ![p].volume = Volume(volume.id, r.status)]
                      /\ Goto(p, "dealloc")
                      /\ held' = synchronized_exit(held, name, p, FALSE)
                 ELSE /\ loc' = [loc EXCEPT
                                   ![p].volume = Volume(volume.id, r.status),
                                   ![p].t = t]
                      /\ UNCHANGED <<pc, held>>
    /\ UNCHANGED <<op, log, overlap, ncalls, hostVars, snaps, accessVars,
                   sshVars, serviceVars>>

(***************************************************************************)
(* _deallocate_container                                                   *)
(***************************************************************************)
\* A _deallocate_container that requests the delete of a volume whatever its
\* status; the backend accepts the delete of an 'in-use' volume as well.
deallocate_container_delete_broken(p) ==
    LET v == get_volume(op[p].share) IN
    /\ pc[p] = "dealloc"
    /\ \E ok \in BOOLEAN :
         IF ~ok THEN Raise(p, "BackendError") /\ UNCHANGED <<log, vols>>
         ELSE IF v = -1
         THEN Raise(p, "ManilaException") /\ UNCHANGED <<log, vols>>
         ELSE IF v = NoVol
         THEN Goto(p, "done") /\ UNCHANGED <<loc, log, vols>>
         ELSE \E r \in Progress(vols[v]) \ {Absent} :
                /\ Log(p, "volume_delete")
                /\ \E accepted \in BOOLEAN :
                     IF accepted /\ r.status \in {"available", "error",
                                                  "in-use"}
                     THEN /\ vols' = [vols EXCEPT ![v] =
                                        [r EXCEPT !.status = "deleting",
                                                  !.host = None]]
                          /\ loc' = [loc EXCEPT
                                       ![p].volume = Volume(v, r.status),
                                       ![p].t = 0]
                          /\ Goto(p, "dealloc_wait")
                     ELSE /\ vols' = [vols EXCEPT ![v] = r]
                          /\ pc' = [pc EXCEPT ![p] =
                                      on_raise(op[p].kind, pc[p])]
                          /\ loc' = [loc EXCEPT
                                       ![p].err = "BackendError",
                                       ![p].volume = Volume(v, r.status)]
    /\ UNCHANGED <<op, overlap, ncalls, held, hostVars, snaps, accessVars,
                   sshVars, serviceVars>>

\* The head of _deallocate_container: the share's volume, when there is one
\* and it is not 'in-use', is deleted.  The backend accepts the delete of an
\* 'available' or 'error' volume only.
deallocate_container_delete(p) ==
    LET v == get_volume(op[p].share) IN
    /\ pc[p] = "dealloc"
    /\ \E ok \in BOOLEAN :
         IF ~ok THEN Raise(p, "BackendError") /\ UNCHANGED <<log, vols>>
         ELSE IF v = -1
         THEN Raise(p, "ManilaException") /\ UNCHANGED <<log, vols>>
         ELSE IF v = NoVol
         THEN Goto(p, "done") /\ UNCHANGED <<loc, log, vols>>
         ELSE \E r \in Progress(vols[v]) \ {Absent} :
                IF r.status = "in-use"
                THEN /\ vols' = [vols EXCEPT ![v] = r]
                     /\ pc' = [pc EXCEPT ![p] = on_raise(op[p].kind, pc[p])]
                     /\ loc' = [loc EXCEPT ![p].err = "ManilaException",
                                           ![p].volume = Volume(v, r.status)]
                     /\ UNCHANGED log
                ELSE /\ Log(p, "volume_delete")
                     /\ \E accepted \in BOOLEAN :
                          IF accepted /\ r.status \in {"available", "error"}
                          THEN /\ vols' = [vols EXCEPT ![v] =
                                             [r EXCEPT !.status = "deleting",
                                                       !.host = None]]
                               /\ loc' = [loc EXCEPT
                                            ![p].volume = Volume(v, r.status),
                                            ![p].t = 0]
                               /\ Goto(p, "dealloc_wait")
                          ELSE /\ vols' = [vols EXCEPT ![v] = r]
                               /\ pc' = [pc EXCEPT ![p] =
                                           on_raise(op[p].kind, pc[p])]
                               /\ loc' = [loc EXCEPT
                                            ![p].err = "BackendError",
                                            ![p].volume = Volume(v, r.status)]
    /\ UNCHANGED <<op, overlap, ncalls, held, hostVars, snaps, accessVars,
                   sshVars, serviceVars>>

\* One turn of the loop
\*   while time.time() - t < max_time_to_create_volume: ... else: raise
deallocate_container_wait(p) ==
    LET volume == loc[p].volume IN
    /\ pc[p] = "dealloc_wait"
    /\ IF deadline_reached(loc[p].t, max_time_to_create_volume)
       THEN /\ RaiseMsg(p, "ManilaException",
                        "Volume have not been deleted in %ss. Giving up")
            /\ UNCHANGED vols
       ELSE \E t \in (loc[p].t + 1)..max_time_to_create_volume,
               r \in Progress(vols[volume.id]) :
              /\ vols' = [vols EXCEPT ![volume.id] = r]
              /\ IF r = Absent
                 THEN Goto(p, "done") /\ UNCHANGED loc
                 ELSE /\ loc' = [loc EXCEPT ![p].t = t]
                      /\ UNCHANGED pc
    /\ UNCHANGED <<op, log, overlap, ncalls, held, hostVars,
                 snaps, accessVars, sshVars, serviceVars>>

(***************************************************************************)
(* create_snapshot and delete_snapshot                                     *)
(***************************************************************************)
\* What a read of snapshot record r can find.
SnapProgress(r) ==
    CASE r.status = "creating" ->
           {r, [r EXCEPT !.status = "available"], [r EXCEPT !.status = "error"]}
      [] r.status = "deleting" -> {r, NoSnap}
      [] OTHER -> {r}

\* volume_snapshot_name_template % snapshot['id']
get_volume_snapshot_name(snapshot_id) == <<"manila-snapshot-", snapshot_id>>

FreeSnapIds == {k \in SnapIds : snaps[k].status = "absent"}

\* The outcomes of self._get_volume_snapshot(context, snapshot_id): 0 when no
\* snapshot carries the name, -1 when several do, else the snapshot.
get_volume_snapshot(snapshot_id) ==
    LET found == {k \in SnapIds :
                     /\ snaps[k].status # "absent"
                     /\ snaps[k].name = get_volume_snapshot_name(snapshot_id)}
    IN IF Cardinality(found) = 1 THEN CHOOSE k \in found : TRUE
       ELSE IF Cardinality(found) > 1 THEN -1
       ELSE 0

\* volume = self._get_volume(self.admin_context, snapshot['share_id']); the
\* code then reads volume['id'], which raises TypeError when the share has
\* no volume.
create_snapshot_lookup(p) ==
    LET v == get_volume(op[p].share) IN
    /\ pc[p] = "snap_volume"
    /\ \E ok \in BOOLEAN :
         IF ~ok THEN Raise(p, "BackendError")
         ELSE IF v = -1 THEN Raise(p, "ManilaException")
         ELSE IF v = NoVol THEN Raise(p, "TypeError")
         ELSE /\ loc' = [loc EXCEPT ![p].volume = Volume(v, vols[v].status)]
              /\ Goto(p, "snap_create")
    /\ UNCHANGED <<op, log, overlap, ncalls, held, hostVars, vols,
                 snaps, accessVars, sshVars, serviceVars>>

\* volume_snapshot = self.volume_api.create_snapshot_force(...); t = time.time()
create_snapshot_create(p) ==
    /\ pc[p] = "snap_create"
    /\ Log(p, "snapshot_create")
    /\ \E ok \in BOOLEAN :
         IF ok /\ FreeSnapIds # {}
         THEN LET k == CHOOSE x \in FreeSnapIds : \A y \in FreeSnapIds : x <= y
              IN /\ snaps' = [snaps EXCEPT ![k] =
                     SnapRec("creating",
                             get_volume_snapshot_name(op[p].snapshot))]
                 /\ loc' = [loc EXCEPT
                              ![p].volume_snapshot = Volume(k, "creating"),
                              ![p].t = 0]
                 /\ Goto(p, "snap_wait")
         ELSE /\ Raise(p, "BackendError")
              /\ UNCHANGED snaps
    /\ UNCHANGED <<op, overlap, ncalls, held, hostVars, vols, accessVars,
                   sshVars, serviceVars>>

\* A creation wait that does not look for the 'error' status.
create_snapshot_wait_broken(p) ==
    LET volume_snapshot == loc[p].volume_snapshot IN
    /\ pc[p] = "snap_wait"
    /\ IF deadline_reached(loc[p].t, max_time_to_create_volume)
       THEN /\ RaiseMsg(p, "ManilaException",
                  "Volume snapshot have not been created in %ss. Giving up")
            /\ UNCHANGED snaps
       ELSE IF volume_snapshot.status = "available"
       THEN Goto(p, "done") /\ UNCHANGED <<loc, snaps>>
       ELSE \E t \in (loc[p].t + 1)..max_time_to_create_volume,
               r \in SnapProgress(snaps[volume_snapshot.id]) :
              /\ snaps' = [snaps EXCEPT ![volume_snapshot.id] = r]
              /\ loc' = [loc EXCEPT
                           ![p].volume_snapshot =
                               Volume(volume_snapshot.id, r.status),
                           ![p].t = t]
              /\ UNCHANGED pc
    /\ UNCHANGED <<op, log, overlap, ncalls, held, hostVars, vols, accessVars,
                   sshVars, serviceVars>>

\* One turn of the loop
\*   while time.time() - t < max_time_to_create_volume: ... else: raise
create_snapshot_wait(p) ==
    LET volume_snapshot == loc[p].volume_snapshot IN
    /\ pc[p] = "snap_wait"
    /\ IF deadline_reached(loc[p].t, max_time_to_create_volume)
       THEN /\ RaiseMsg(p, "ManilaException",
                  "Volume snapshot have not been created in %ss. Giving up")
            /\ UNCHANGED snaps
       ELSE IF volume_snapshot.status = "available"
       THEN Goto(p, "done") /\ UNCHANGED <<loc, snaps>>
       ELSE IF volume_snapshot.status = "error"
       THEN /\ RaiseMsg(p, "ManilaException",
                        "Failed to create volume snapshot")
            /\ UNCHANGED snaps
       ELSE \E t \in (loc[p].t + 1)..max_time_to_create_volume,
               r \in SnapProgress(snaps[volume_snapshot.id]) :
              /\ snaps' = [snaps EXCEPT ![volume_snapshot.id] = r]
              /\ loc' = [loc EXCEPT
                           ![p].volume_snapshot =
                               Volume(volume_snapshot.id, r.status),
                           ![p].t = t]
              /\ UNCHANGED pc
    /\ UNCHANGED <<op, log, overlap, ncalls, held, hostVars, vols, accessVars,
                   sshVars, serviceVars>>

\* The head of delete_snapshot: the snapshot, when there is one, is deleted.
\* The backend accepts the delete of an 'available' or 'error' snapshot only.
delete_snapshot_delete(p) ==
    LET k == get_volume_snapshot(op[p].snapshot) IN
    /\ pc[p] = "snapdel"
    /\ \E ok \in BOOLEAN :
         IF ~ok THEN Raise(p, "BackendError") /\ UNCHANGED <<log, snaps>>
         ELSE IF k = -1
         THEN Raise(p, "ManilaException") /\ UNCHANGED <<log, snaps>>
         ELSE IF k = 0
         THEN Goto(p, "done") /\ UNCHANGED <<loc, log, snaps>>
         ELSE /\ Log(p, "snapshot_delete")
              /\ \E accepted \in BOOLEAN :
                   IF accepted /\ snaps[k].status \in {"available", "error"}
                   THEN /\ snaps' = [snaps EXCEPT ![k].status = "deleting"]
                        /\ loc' = [loc EXCEPT
                                     ![p].volume_snapshot =
                                         Volume(k, snaps[k].status),
                                     ![p].t = 0]
                        /\ Goto(p, "snapdel_wait")
                   ELSE /\ Raise(p, "BackendError")
                        /\ UNCHANGED snaps
    /\ UNCHANGED <<op, overlap, ncalls, held, hostVars, vols, accessVars,
                   sshVars, serviceVars>>

\* One turn of the loop
\*   while time.time() - t < max_time_to_create_volume: ... else: raise
delete_snapshot_wait(p) ==
    LET volume_snapshot == loc[p].volume_snapshot IN
    /\ pc[p] = "snapdel_wait"
    /\ IF deadline_reached(loc[p].t, max_time_to_create_volume)
       THEN /\ RaiseMsg(p, "ManilaException",
                  "Volume snapshot have not been deleted in %ss. Giving up")
            /\ UNCHANGED snaps
       ELSE \E t \in (loc[p].t + 1)..max_time_to_create_volume,
               r \in SnapProgress(snaps[volume_snapshot.id]) :
              /\ snaps' = [snaps EXCEPT ![volume_snapshot.id] = r]
              /\ IF r = NoSnap
                 THEN Goto(p, "done") /\ UNCHANGED loc
                 ELSE /\ loc' = [loc EXCEPT ![p].t = t]
                      /\ UNCHANGED pc
    /\ UNCHANGED <<op, log, overlap, ncalls, held, hostVars, vols, accessVars,
                   sshVars, serviceVars>>

\* Snapshot calls, as the share manager makes them.
call_create_snapshot(p) ==
    \E share \in Shares, snapshot \in Snapshots :
        /\ ncalls < MaxCalls
        /\ BeginOp(p, [NoOp EXCEPT !.kind = "create_snapshot",
                                   !.share = share, !.snapshot = snapshot],
                   NoVolume, "snap_volume")
        /\ UNCHANGED <<held, hostVars, vols, snaps, accessVars, sshVars,
                       serviceVars>>

call_delete_snapshot(p) ==
    \E snapshot \in Snapshots :
        /\ ncalls < MaxCalls
        /\ BeginOp(p, [NoOp EXCEPT !.kind = "delete_snapshot",
                                   !.snapshot = snapshot],
                   NoVolume, "snapdel")
        /\ UNCHANGED <<held, hostVars, vols, snaps, accessVars, sshVars,
                       serviceVars>>

(***************************************************************************)
(* allow_access: the driver method and the NFS and CIFS helpers.           *)
(***************************************************************************)
\* The key of nfs_synchronized: "nfs-%s" % args[0]["instance_id"]
nfs_lock_name(instance_id) == <<"nfs-", instance_id>>

\* An entry of the export table of host h: path, client and options.
Export(h, path, client, level) == <<h, path, client, level>>

\* Sequence s starts sequence t.
IsPrefix(s, t) == Len(s) <= Len(t) /\ s = SubSeq(t, 1, Len(s))

\* A check that finds no entry.
exportfs_search_broken(tbl, h, local_path, access_to) == FALSE

\* re.search(re.escape(local_path) + '[\s\n]*' + re.escape(access_to), out)
\* on the output of 'sudo exportfs' of host h, which lists each entry as the
\* path, white space and the client: the search finds an entry of the path
\* whose client text starts with access_to.
exportfs_search(tbl, h, local_path, access_to) ==
    \E e \in tbl : /\ e[1] = h
                   /\ e[2] = local_path
                   /\ IsPrefix(access_to, e[3])

\* The driver's allow_access after ensure_server: the level is verified and
\* the helper of the share's protocol is called.
allow_access_level(p) ==
    /\ pc[p] = "allow_level"
    /\ IF op[p].access.access_level \notin {"rw", "ro"}
       THEN Raise(p, "InvalidShareAccessLevel")
       ELSE /\ Goto(p, IF share_proto(op[p].share) = "NFS"
                       THEN "nfs_allow_lock" ELSE "cifs_allow_get")
            /\ UNCHANGED loc
    /\ UNCHANGED <<op, log, overlap, ncalls, held, hostVars, vols,
                 snaps, accessVars, sshVars, serviceVars>>

\* @nfs_synchronized
nfs_allow_lock(p) ==
    /\ pc[p] = "nfs_allow_lock"
    /\ Acquire(p, nfs_lock_name(op[p].server))
    /\ Goto(p, "nfs_allow_check")
    /\ UNCHANGED <<op, loc, log, overlap, ncalls, hostVars, vols,
                 snaps, accessVars, sshVars, serviceVars>>

\* A check of the export table made for every access type.
nfs_allow_check_broken(p) ==
    LET h == op[p].server
        name == nfs_lock_name(h)
        local_path == get_mount_path(op[p].share)
    IN
    /\ pc[p] = "nfs_allow_check"
    /\ IF FALSE
       THEN /\ Raise(p, "InvalidShareAccess")
            /\ held' = synchronized_exit(held, name, p, TRUE)
            /\ UNCHANGED log
       ELSE /\ Log(p, "exportfs")
            /\ \E ok \in BOOLEAN :
                 IF ~ok
                 THEN /\ Raise(p, "ProcessExecutionError")
                      /\ held' = synchronized_exit(held, name, p, TRUE)
                 ELSE IF exportfs_search(nfs_exports, h, local_path,
                                         op[p].access.access_to)
                 THEN /\ Raise(p, "ShareAccessExists")
                      /\ held' = synchronized_exit(held, name, p, TRUE)
                 ELSE /\ Goto(p, "nfs_allow_add")
                      /\ UNCHANGED <<held, loc>>
    /\ UNCHANGED <<op, overlap, ncalls, hostVars, vols, snaps, accessVars,
                   sshVars, serviceVars>>

\* NFSHelper.allow_access up to the check of the export table.
nfs_allow_check(p) ==
    LET h == op[p].server
        name == nfs_lock_name(h)
        local_path == get_mount_path(op[p].share)
    IN
    /\ pc[p] = "nfs_allow_check"
    /\ IF op[p].access.access_type # "ip"
       THEN /\ Raise(p, "InvalidShareAccess")
            /\ held' = synchronized_exit(held, name, p, TRUE)
            /\ UNCHANGED log
       ELSE /\ Log(p, "exportfs")
            /\ \E ok \in BOOLEAN :
                 IF ~ok
                 THEN /\ Raise(p, "ProcessExecutionError")
                      /\ held' = synchronized_exit(held, name, p, TRUE)
                 ELSE IF exportfs_search(nfs_exports, h, local_path,
                                         op[p].access.access_to)
                 THEN /\ Raise(p, "ShareAccessExists")
                      /\ held' = synchronized_exit(held, name, p, TRUE)
                 ELSE /\ Goto(p, "nfs_allow_add")
                      /\ UNCHANGED <<held, loc>>
    /\ UNCHANGED <<op, overlap, ncalls, hostVars, vols, snaps, accessVars,
                   sshVars, serviceVars>>

\* sudo exportfs -o <level>,no_subtree_check <access_to>:<local_path>
\* An entry of the same path and client is replaced.
nfs_allow_add(p) ==
    LET h == op[p].server
        name == nfs_lock_name(h)
        local_path == get_mount_path(op[p].share)
        access == op[p].access
        same == {e \in nfs_exports : /\ e[1] = h /\ e[2] = local_path
                                     /\ e[3] = access.access_to}
    IN
    /\ pc[p] = "nfs_allow_add"
    /\ Log(p, "exportfs_o")
    /\ \E ok \in BOOLEAN :
         IF ok
         THEN /\ nfs_exports' = (nfs_exports \ same) \cup
                    {Export(h, local_path, access.access_to,
                            access.access_level)}
              /\ Goto(p, "nfs_sync")
              /\ UNCHANGED <<held, loc>>
         ELSE /\ Raise(p, "ProcessExecutionError")
              /\ held' = synchronized_exit(held, name, p, TRUE)
              /\ UNCHANGED nfs_exports
    /\ UNCHANGED <<op, overlap, ncalls, hostVars, vols, snaps,
                 nfs_exports_file, hosts_allow, sshVars, serviceVars>>

\* _sync_nfs_temp_and_perm_files: one command,
\*   sudo cp <NFS_EXPORTS_FILE_TEMP> <NFS_EXPORTS_FILE> && sudo exportfs -a
\* The copy replaces the permanent file of the host by its export table;
\* exportfs -a exports what the permanent file lists.
nfs_sync(p) ==
    LET h == op[p].server
        name == nfs_lock_name(h)
        copied == {e \in nfs_exports_file : e[1] # h} \cup
                  {e \in nfs_exports : e[1] = h}
    IN
    /\ pc[p] = "nfs_sync"
    /\ Log(p, "nfs_sync")
    /\ \E outcome \in {"ok", "cp_failed", "exportfs_failed"} :
         /\ nfs_exports_file' =
              IF outcome = "cp_failed" THEN nfs_exports_file ELSE copied
         /\ nfs_exports' =
              IF outcome = "ok"
              THEN nfs_exports \cup {e \in copied : e[1] = h}
              ELSE nfs_exports
         /\ IF outcome = "ok"
            THEN /\ Goto(p, "done")
                 /\ held' = synchronized_exit(held, name, p, FALSE)
                 /\ UNCHANGED loc
            ELSE /\ Raise(p, "ProcessExecutionError")
                 /\ held' = synchronized_exit(held, name, p, TRUE)
    /\ UNCHANGED <<op, overlap, ncalls, hostVars, vols, snaps, hosts_allow,
                   sshVars, serviceVars>>

\* CIFSHelper.allow_access up to the membership test:
\*   hosts = self._get_allow_hosts(server, share_name)
\* 'net conf getparm' fails when the host has no section of that name.
cifs_allow_get(p) ==
    LET section == <<op[p].server, op[p].share>>
        access == op[p].access
    IN
    /\ pc[p] = "cifs_allow_get"
    /\ IF access.access_type # "ip"
       THEN Raise(p, "InvalidShareAccess") /\ UNCHANGED log
       ELSE IF access.access_level # "rw"
       THEN Raise(p, "InvalidShareAccessLevel") /\ UNCHANGED log
       ELSE /\ Log(p, "getparm")
            /\ \E ok \in BOOLEAN :
                 /\ ok => section \in exports
                 /\ IF ~ok THEN Raise(p, "ProcessExecutionError")
                    ELSE IF \E i \in 1..Len(hosts_allow[section]) :
                              hosts_allow[section][i] = access.access_to
                    THEN Raise(p, "ShareAccessExists")
                    ELSE /\ loc' = [loc EXCEPT ![p].hosts =
                                      Append(hosts_allow[section],
                                             access.access_to)]
                         /\ Goto(p, "cifs_allow_set")
    /\ UNCHANGED <<op, overlap, ncalls, held, hostVars, vols,
                 snaps, accessVars, sshVars, serviceVars>>

\* self._set_allow_hosts(server, hosts, share_name)
cifs_allow_set(p) ==
    LET section == <<op[p].server, op[p].share>> IN
    /\ pc[p] = "cifs_allow_set"
    /\ Log(p, "setparm")
    /\ \E ok \in BOOLEAN :
         /\ ok => section \in exports
         /\ IF ok
            THEN /\ hosts_allow' = [hosts_allow EXCEPT
                                     ![section] = loc[p].hosts]
                 /\ Goto(p, "done")
                 /\ UNCHANGED loc
            ELSE /\ Raise(p, "ProcessExecutionError")
                 /\ UNCHANGED hosts_allow
    /\ UNCHANGED <<op, overlap, ncalls, held, hostVars, vols,
                 snaps, nfs_exports, nfs_exports_file, sshVars, serviceVars>>

(***************************************************************************)
(* deny_access of the NFS and CIFS helpers.  The driver's deny_access      *)
(* calls the helper without `force`; other callers can set it.             *)
(***************************************************************************)
\* An unexport that removes every entry whose client starts with the text.
exportfs_u_broken(tbl, h, local_path, access_to) ==
    {e \in tbl : ~(e[1] = h /\ e[2] = local_path /\ IsPrefix(access_to, e[3]))}

\* sudo exportfs -u <access_to>:<local_path>: the export table without the
\* entry of that client and path.
exportfs_u(tbl, h, local_path, access_to) ==
    {e \in tbl : ~(e[1] = h /\ e[2] = local_path /\ e[3] = access_to)}

\* A lock taken per share instead of per host.
nfs_deny_lock_broken(p) ==
    /\ pc[p] = "nfs_deny_lock"
    /\ Acquire(p, <<"nfs-", op[p].server, op[p].share>>)
    /\ Goto(p, "nfs_deny_cmd")
    /\ UNCHANGED <<op, loc, log, overlap, ncalls, hostVars, vols,
                 snaps, accessVars, sshVars, serviceVars>>

\* @nfs_synchronized
nfs_deny_lock(p) ==
    /\ pc[p] = "nfs_deny_lock"
    /\ Acquire(p, nfs_lock_name(op[p].server))
    /\ Goto(p, "nfs_deny_cmd")
    /\ UNCHANGED <<op, loc, log, overlap, ncalls, hostVars, vols,
                 snaps, accessVars, sshVars, serviceVars>>

\* NFSHelper.deny_access up to the persist step; `force` is not read.
nfs_deny_cmd(p) ==
    LET h == op[p].server
        name == nfs_lock_name(h)
        local_path == get_mount_path(op[p].share)
    IN
    /\ pc[p] = "nfs_deny_cmd"
    /\ Log(p, "exportfs_u")
    /\ \E ok \in BOOLEAN :
         IF ok
         THEN /\ nfs_exports' = exportfs_u(nfs_exports, h, local_path,
                                           op[p].access.access_to)
              /\ Goto(p, "nfs_sync")
              /\ UNCHANGED <<held, loc>>
         ELSE /\ Raise(p, "ProcessExecutionError")
              /\ held' = synchronized_exit(held, name, p, TRUE)
              /\ UNCHANGED nfs_exports
    /\ UNCHANGED <<op, overlap, ncalls, hostVars, vols, snaps,
                 nfs_exports_file, hosts_allow, sshVars, serviceVars>>

\* hosts.remove(access_to): the list without the first occurrence.
remove(hosts, access_to) ==
    LET i == CHOOSE k \in 1..Len(hosts) :
                 /\ hosts[k] = access_to
                 /\ \A j \in 1..(k - 1) : hosts[j] # access_to
    IN RemoveAt(hosts, i)

\* CIFSHelper.deny_access up to the write of the list.  A level other than
\* rw returns at once; a failure of getparm is raised unless force is set.
cifs_deny_get(p) ==
    LET section == <<op[p].server, op[p].share>>
        access == op[p].access
    IN
    /\ pc[p] = "cifs_deny_get"
    /\ IF access.access_level # "rw"
       THEN Goto(p, "done") /\ UNCHANGED <<loc, log>>
       ELSE /\ Log(p, "getparm")
            /\ \E ok \in BOOLEAN :
                 /\ ok => section \in exports
                 /\ IF ~ok
                    THEN IF op[p].force
                         THEN Goto(p, "done") /\ UNCHANGED loc
                         ELSE Raise(p, "ProcessExecutionError")
                    ELSE IF \E i \in 1..Len(hosts_allow[section]) :
                              hosts_allow[section][i] = access.access_to
                    THEN /\ loc' = [loc EXCEPT ![p].hosts =
                                      remove(hosts_allow[section],
                                             access.access_to)]
                         /\ Goto(p, "cifs_deny_set")
                    ELSE Goto(p, "done") /\ UNCHANGED loc
    /\ UNCHANGED <<op, overlap, ncalls, held, hostVars, vols,
                 snaps, accessVars, sshVars, serviceVars>>

\* self._set_allow_hosts(server, hosts, share_name), inside the try block.
cifs_deny_set(p) ==
    LET section == <<op[p].server, op[p].share>> IN
    /\ pc[p] = "cifs_deny_set"
    /\ Log(p, "setparm")
    /\ \E ok \in BOOLEAN :
         /\ ok => section \in exports
         /\ IF ok
            THEN /\ hosts_allow' = [hosts_allow EXCEPT
                                     ![section] = loc[p].hosts]
                 /\ Goto(p, "done")
                 /\ UNCHANGED loc
            ELSE /\ IF op[p].force
                    THEN Goto(p, "done") /\ UNCHANGED loc
                    ELSE Raise(p, "ProcessExecutionError")
                 /\ UNCHANGED hosts_allow
    /\ UNCHANGED <<op, overlap, ncalls, held, hostVars, vols,
                 snaps, nfs_exports, nfs_exports_file, sshVars, serviceVars>>

\* helper.deny_access(server, share_name, access[, force]) for an ip rule.
\* The helper is the one of the share's protocol, as self._get_helper(share)
\* returns it, or the NFS helper called with the name of another share.
call_deny_access(p) ==
    \E share \in Shares, server \in Hosts, level \in {"rw", "ro"},
       to \in Clients, force \in BOOLEAN, helper \in {"NFS", "CIFS"} :
        /\ ncalls < MaxCalls
        /\ helper # share_proto(share)
           => helper = "NFS" /\ level = "rw" /\ ~force
        /\ BeginOp(p, [NoOp EXCEPT !.kind = "deny_access",
                                   !.share = share, !.server = server,
                                   !.access = Access("ip", level, to),
                                   !.force = force],
                   NoVolume,
                   IF helper = "NFS" THEN "nfs_deny_lock"
                   ELSE "cifs_deny_get")
        /\ UNCHANGED <<held, hostVars, vols, snaps, accessVars, sshVars,
                       serviceVars>>

\* allow_access, as the share manager calls it for an access rule.
call_allow_access(p) ==
    \E share \in Shares, server \in Hosts, type \in AccessTypes,
       level \in AccessLevels, to \in Clients :
        /\ ncalls < MaxCalls
        /\ BeginOp(p, [NoOp EXCEPT !.kind = "allow_access",
                                   !.share = share, !.server = server,
                                   !.access = Access(type, level, to)],
                   NoVolume, "ensure_server")
        /\ UNCHANGED <<held, hostVars, vols, snaps, accessVars, sshVars,
                       serviceVars>>

\* helper.create_export(server, share_name, recreate) called on its own.
call_create_export(p) ==
    \E share \in Shares, server \in Hosts, recreate \in BOOLEAN :
        /\ ncalls < MaxCalls
        /\ BeginOp(p, [NoOp EXCEPT !.kind = "create_export",
                                   !.share = share, !.server = server,
                                   !.recreate = recreate],
                   NoVolume, "export")
        /\ UNCHANGED <<held, hostVars, vols, snaps, accessVars, sshVars,
                       serviceVars>>

(***************************************************************************)
(* manage_existing                                                         *)
(***************************************************************************)
\* volume['size'] of the backend's volume v, in GB.
volume_size(v) == v

\* NFSHelper.get_share_path_by_export_location: export_location.split(':')[-1]
nfs_share_path(export_location) == export_location[Len(export_location)]

\* CIFSHelper._get_share_group_name_from_export_location for a location
\* that starts with two backslashes: export_location.split('\\')[-1]
cifs_group_name(export_location) == export_location[Len(export_location)]

\* What 'df -PBG <mount_path>' can print: a header line and a line whose
\* second column is the size, or less.
Header == <<<<"F", "s">>, <<"1", "G", "-", "b", "l", "o", "c", "k", "s">>>>
DfLine(size) == <<<<"/", "d", "e", "v">>, size>>
DfOutputs == {<<Header, DfLine(<<"1", "G">>)>>,
              <<Header, DfLine(<<"3", "G">>)>>,
              <<Header, DfLine(<<"-">>)>>,
              <<Header>>}

Digits == <<"0", "1", "2", "3", "4", "5", "6", "7", "8", "9">>
IsDigit(c) == \E d \in 1..Len(Digits) : Digits[d] = c
DigitValue(c) == (CHOOSE d \in 1..Len(Digits) : Digits[d] = c) - 1

\* int(text) for a text of decimal digits; -1 stands for ValueError.
RECURSIVE int(_)
int(text) ==
    IF text = <<>> \/ \E i \in 1..Len(text) : ~IsDigit(text[i]) THEN -1
    ELSE IF Len(text) = 1 THEN DigitValue(text[1])
    ELSE 10 * int(SubSeq(text, 1, Len(text) - 1)) + DigitValue(text[Len(text)])

\* _get_mounted_share_size: int(lines[1].split()[1][:-1]), where any
\* exception becomes ManageInvalidShare (-1 here).
get_mounted_share_size(lines) ==
    IF Len(lines) < 2 \/ Len(lines[2]) < 2 THEN -1
    ELSE int(SubSeq(lines[2][2], 1, Len(lines[2][2]) - 1))

\* helper.get_exports_for_share(server_details, old_export_location)
get_exports_for_share(share, server, old_export_location) ==
    IF share_proto(share) = "NFS"
    THEN <<public_address(server), ":", nfs_share_path(old_export_location)>>
    ELSE cifs_export_location(server, cifs_group_name(old_export_location))

\* The head of manage_existing: the driver mode and the share type are
\* verified and the helper derives the mount path from the export location;
\* the CIFS helper asks the host for the 'path' of the share section.
manage_existing_path(p) ==
    LET h == op[p].server
        old == op[p].export_location
    IN
    /\ pc[p] = "manage_path"
    /\ IF op[p].mode = "driver_handles_share_servers"
       THEN Raise(p, "InvalidDriverMode") /\ UNCHANGED log
       ELSE IF op[p].mode = "share_type_mismatch"
       THEN Raise(p, "ManageExistingShareTypeMismatch") /\ UNCHANGED log
       ELSE IF share_proto(op[p].share) = "NFS"
       THEN /\ loc' = [loc EXCEPT ![p].mount_path = nfs_share_path(old)]
            /\ Goto(p, "manage_probe")
            /\ UNCHANGED log
       ELSE /\ Log(p, "getparm_path")
            /\ \E ok \in BOOLEAN :
                 /\ ok => <<h, cifs_group_name(old)>> \in exports
                 /\ IF ok
                    THEN /\ loc' = [loc EXCEPT ![p].mount_path =
                                      get_mount_path(cifs_group_name(old))]
                         /\ Goto(p, "manage_probe")
                    ELSE Raise(p, "ProcessExecutionError")
    /\ UNCHANGED <<op, overlap, ncalls, held, hostVars, vols,
                 snaps, accessVars, sshVars, serviceVars>>

\* A manage_existing that does not look at the mounts.
manage_existing_probe_broken(p) ==
    /\ pc[p] = "manage_probe"
    /\ Log(p, "mount_list")
    /\ \E ok \in BOOLEAN :
         IF ~ok THEN Raise(p, "ProcessExecutionError")
         ELSE Goto(p, "manage_volume") /\ UNCHANGED loc
    /\ UNCHANGED <<op, overlap, ncalls, held, hostVars, vols,
                 snaps, accessVars, sshVars, serviceVars>>

\* mounted = self._is_device_mounted(mount_path, server_details)
manage_existing_probe(p) ==
    /\ pc[p] = "manage_probe"
    /\ Log(p, "mount_list")
    /\ \E ok \in BOOLEAN :
         IF ~ok THEN Raise(p, "ProcessExecutionError")
         ELSE IF ~is_device_mounted(loc[p].mount_path, mtab[op[p].server],
                                    NoVolume)
         THEN Raise(p, "ManageInvalidShare")
         ELSE Goto(p, "manage_volume") /\ UNCHANGED loc
    /\ UNCHANGED <<op, overlap, ncalls, held, hostVars, vols,
                 snaps, accessVars, sshVars, serviceVars>>

\* share_volume = get_volume(): the backend is asked only when the driver
\* options hold a volume id.
manage_existing_get_volume(p) ==
    LET v == op[p].volume_id IN
    /\ pc[p] = "manage_volume"
    /\ IF v = NoVol
       THEN Goto(p, "manage_df") /\ UNCHANGED <<loc, log>>
       ELSE /\ Log(p, "volume_get")
            /\ \E ok \in BOOLEAN :
                 IF ~ok THEN Raise(p, "BackendError")
                 ELSE IF vols[v].status = "absent"
                 THEN Raise(p, "ManageInvalidShare")
                 ELSE /\ loc' = [loc EXCEPT
                                  ![p].volume = Volume(v, vols[v].status),
                                  ![p].name = vols[v].name]
                      /\ Goto(p, "manage_attached")
    /\ UNCHANGED <<op, overlap, ncalls, held, hostVars, vols,
                 snaps, accessVars, sshVars, serviceVars>>

\* A manage_existing that accepts a volume attached anywhere.
manage_existing_attached_broken(p) ==
    LET v == loc[p].volume.id IN
    /\ pc[p] = "manage_attached"
    /\ Log(p, "instance_volumes_list")
    /\ \E ok \in BOOLEAN :
         IF ~ok THEN Raise(p, "BackendError")
         ELSE IF FALSE
         THEN Raise(p, "ManageInvalidShare")
         ELSE IF loc[p].name # get_volume_name(op[p].share)
         THEN Goto(p, "manage_update") /\ UNCHANGED loc
         ELSE /\ loc' = [loc EXCEPT
                          ![p].size = volume_size(v),
                          ![p].location = get_exports_for_share(
                              op[p].share, op[p].server,
                              op[p].export_location)]
              /\ Goto(p, "done")
    /\ UNCHANGED <<op, overlap, ncalls, held, hostVars, vols,
                 snaps, accessVars, sshVars, serviceVars>>

\* The volume must be among compute_api.instance_volumes_list(instance_id).
manage_existing_attached(p) ==
    LET v == loc[p].volume.id IN
    /\ pc[p] = "manage_attached"
    /\ Log(p, "instance_volumes_list")
    /\ \E ok \in BOOLEAN :
         IF ~ok THEN Raise(p, "BackendError")
         ELSE IF v \notin instance_volumes_list(op[p].server)
         THEN Raise(p, "ManageInvalidShare")
         ELSE IF loc[p].name # get_volume_name(op[p].share)
         THEN Goto(p, "manage_update") /\ UNCHANGED loc
         ELSE /\ loc' = [loc EXCEPT
                          ![p].size = volume_size(v),
                          ![p].location = get_exports_for_share(
                              op[p].share, op[p].server,
                              op[p].export_location)]
              /\ Goto(p, "done")
    /\ UNCHANGED <<op, overlap, ncalls, held, hostVars, vols,
                 snaps, accessVars, sshVars, serviceVars>>

\* self.volume_api.update(context, share_volume['id'],
\*                        {'name': linked_volume_name})
manage_existing_update(p) ==
    LET v == loc[p].volume.id IN
    /\ pc[p] = "manage_update"
    /\ Log(p, "volume_update")
    /\ \E ok \in BOOLEAN :
         IF ok /\ vols[v].status # "absent"
         THEN /\ vols' = [vols EXCEPT
                           ![v].name = get_volume_name(op[p].share)]
              /\ loc' = [loc EXCEPT
                          ![p].size = volume_size(v),
                          ![p].location = get_exports_for_share(
                              op[p].share, op[p].server,
                              op[p].export_location)]
              /\ Goto(p, "done")
         ELSE Raise(p, "BackendError") /\ UNCHANGED vols
    /\ UNCHANGED <<op, overlap, ncalls, held, hostVars, snaps, accessVars,
                   sshVars, serviceVars>>

\* share_size = self._get_mounted_share_size(mount_path, backend_details)
manage_existing_df(p) ==
    /\ pc[p] = "manage_df"
    /\ Log(p, "df")
    /\ \E ok \in BOOLEAN, lines \in DfOutputs :
         IF ~ok THEN Raise(p, "ProcessExecutionError")
         ELSE IF get_mounted_share_size(lines) = -1
         THEN Raise(p, "ManageInvalidShare")
         ELSE /\ loc' = [loc EXCEPT
                          ![p].size = get_mounted_share_size(lines),
                          ![p].location = get_exports_for_share(
                              op[p].share, op[p].server,
                              op[p].export_location)]
              /\ Goto(p, "done")
    /\ UNCHANGED <<op, overlap, ncalls, held, hostVars, vols,
                 snaps, accessVars, sshVars, serviceVars>>

\* manage_existing(share, driver_options): the share's first export
\* location names a share directory of the common server.
call_manage_existing(p) ==
    \E share \in Shares, old \in Shares, server \in Hosts,
       v \in {NoVol} \cup VolIds,
       mode \in {None, "driver_handles_share_servers",
                 "share_type_mismatch"} :
        /\ ncalls < MaxCalls
        /\ BeginOp(p, [NoOp EXCEPT
                         !.kind = "manage_existing",
                         !.share = share, !.server = server,
                         !.volume_id = v, !.mode = mode,
                         !.export_location =
                             IF share_proto(share) = "NFS"
                             THEN nfs_create_export(server, old)
                             ELSE cifs_export_location(server, old)],
                   NoVolume, "manage_path")
        /\ UNCHANGED <<held, hostVars, vols, snaps, accessVars, sshVars,
                       serviceVars>>

(***************************************************************************)
(* _ssh_exec and the sessions it keeps in self.ssh_connections.  A thread  *)
(* gives way to others where it waits for the network: while a session is  *)
(* being opened and while the command runs.                                *)
(***************************************************************************)
FreeSessIds == {k \in SessIds : sessions[k] = "unused"}

\* An _ssh_exec that uses the recorded session without looking at its
\* transport.
ssh_exec_get_broken(p) ==
    LET h == op[p].server
        connection == ssh_connections[h]
    IN
    /\ pc[p] = "ssh_get"
    /\ IF connection = NoSession
       THEN Goto(p, "ssh_create") /\ UNCHANGED <<loc, sessions>>
       ELSE /\ loc' = [loc EXCEPT
                        ![p].ssh = connection,
                        ![p].found_dead =
                            IF sessions[connection] # "active"
                            THEN connection ELSE NoSession]
            /\ Goto(p, "ssh_run")
            /\ UNCHANGED sessions
    /\ UNCHANGED <<op, log, overlap, ncalls, held, hostVars, vols, snaps,
                 accessVars, ssh_connections, serviceVars>>

\* connection = self.ssh_connections.get(server['instance_id']); without
\* one a session is opened; a recorded session whose transport is not
\* active is removed from its pool, which closes it, and a session is
\* opened in its place; an active one gets the command.
ssh_exec_get(p) ==
    LET h == op[p].server
        connection == ssh_connections[h]
    IN
    /\ pc[p] = "ssh_get"
    /\ IF connection = NoSession
       THEN Goto(p, "ssh_create") /\ UNCHANGED <<loc, sessions>>
       ELSE IF sessions[connection] # "active"
       THEN /\ sessions' = [sessions EXCEPT ![connection] = "closed"]
            /\ loc' = [loc EXCEPT ![p].found_dead = connection]
            /\ Goto(p, "ssh_create")
       ELSE /\ loc' = [loc EXCEPT ![p].ssh = connection]
            /\ Goto(p, "ssh_run")
            /\ UNCHANGED sessions
    /\ UNCHANGED <<op, log, overlap, ncalls, held, hostVars, vols, snaps,
                 accessVars, ssh_connections, serviceVars>>

\* ssh = ssh_pool.create();
\* self.ssh_connections[server['instance_id']] = (ssh_pool, ssh)
\* The new session is recorded and, its transport being active, gets the
\* command; a connection that cannot be opened raises.
ssh_exec_create(p) ==
    LET h == op[p].server IN
    /\ pc[p] = "ssh_create"
    /\ \E ok \in BOOLEAN :
         IF ok /\ FreeSessIds # {}
         THEN LET k == CHOOSE x \in FreeSessIds : \A y \in FreeSessIds : x <= y
              IN /\ sessions' = [sessions EXCEPT ![k] = "active"]
                 /\ ssh_connections' = [ssh_connections EXCEPT ![h] = k]
                 /\ loc' = [loc EXCEPT ![p].ssh = k]
                 /\ Goto(p, "ssh_run")
         ELSE /\ Raise(p, "SSHException")
              /\ UNCHANGED sshVars
    /\ UNCHANGED <<op, log, overlap, ncalls, held, hostVars, vols, snaps,
                 accessVars, serviceVars>>

\* processutils.ssh_execute(ssh, ' '.join(command)) returns or raises; on
\* a session that is no longer active it raises.
ssh_exec_run(p) ==
    /\ pc[p] = "ssh_run"
    /\ Log(p, "ssh_execute")
    /\ \E ok \in BOOLEAN :
         /\ ok => sessions[loc[p].ssh] = "active"
         /\ IF ok THEN Goto(p, "done") /\ UNCHANGED loc
            ELSE Raise(p, "ProcessExecutionError")
    /\ UNCHANGED <<op, overlap, ncalls, held, hostVars, vols, snaps,
                 accessVars, sshVars, serviceVars>>

\* The transport of an open session stops being active.
transport_dies(k) ==
    /\ sessions[k] = "active"
    /\ sessions' = [sessions EXCEPT ![k] = "dead"]
    /\ UNCHANGED <<pc, op, loc, log, overlap, ncalls, held, hostVars, vols,
                 snaps, accessVars, ssh_connections, serviceVars>>

\* self._ssh_exec(server, command)
call_ssh_exec(p) ==
    \E server \in Hosts :
        /\ ncalls < MaxSshCalls
        /\ BeginOp(p, [NoOp EXCEPT !.kind = "_ssh_exec", !.server = server],
                   NoVolume, "ssh_get")
        /\ UNCHANGED <<held, hostVars, vols, snaps, accessVars, sshVars,
                       serviceVars>>

(***************************************************************************)
(* NetAppCmodeClient: the calls that catch NaApiError.  send_request       *)
(* returns or raises NaApiError with one of the codes of the API.          *)
(***************************************************************************)
EVOLUMEOFFLINE == "EVOLUMEOFFLINE"
EOBJECTNOTFOUND == "EOBJECTNOTFOUND"
EDUPLICATEENTRY == "EDUPLICATEENTRY"
EINTERNALERROR == "EINTERNALERROR"
ApiCodes == {EVOLUMEOFFLINE, EOBJECTNOTFOUND, EDUPLICATEENTRY, EINTERNALERROR}
\* What a send_request can do: return ("ok") or raise NaApiError with a code.
ApiResults == {"ok"} \cup ApiCodes

\* The call returns, its first request having answered `result`.
ClientReturn(p, result) ==
    /\ Goto(p, "done")
    /\ loc' = [loc EXCEPT ![p].e_code = IF result = "ok" THEN None
                                        ELSE result]

\* The call raises exception `err`; `code` is the code of the NaApiError
\* that leaves the call, if it is one.
ClientRaise(p, result, err, code) ==
    /\ Goto(p, "failed")
    /\ loc' = [loc EXCEPT ![p].e_code = result, ![p].err = err,
                          ![p].code = code]

\* try: send_request(api) / except NaApiError as e: if e.code == tolerated:
\* return / raise
send_or_reraise(p, api, tolerated) ==
    /\ pc[p] = "client"
    /\ Log(p, api)
    /\ \E result \in ApiResults :
         IF result \in {"ok", tolerated} THEN ClientReturn(p, result)
         ELSE ClientRaise(p, result, "NaApiError", result)
    /\ UNCHANGED <<op, overlap, ncalls, held, hostVars, vols, snaps,
                   accessVars, sshVars, serviceVars>>

\* try: send_request(api) / except NaApiError as e: if e.code == tolerated:
\* LOG... / else: raise exception.NetAppException(msg)
send_or_wrap(p, api, tolerated) ==
    /\ pc[p] = "client"
    /\ Log(p, api)
    /\ \E result \in ApiResults :
         IF result \in {"ok", tolerated} THEN ClientReturn(p, result)
         ELSE ClientRaise(p, result, "NetAppException", None)
    /\ UNCHANGED <<op, overlap, ncalls, held, hostVars, vols, snaps,
                   accessVars, sshVars, serviceVars>>

offline_volume(p) ==
    /\ op[p].kind = "offline_volume"
    /\ send_or_reraise(p, "volume-offline", EVOLUMEOFFLINE)

\* _remove_nfs_export_rules for one rule index.
remove_nfs_export_rules(p) ==
    /\ op[p].kind = "_remove_nfs_export_rules"
    /\ send_or_reraise(p, "export-rule-destroy", EOBJECTNOTFOUND)

create_nfs_export_policy(p) ==
    /\ op[p].kind = "create_nfs_export_policy"
    /\ send_or_reraise(p, "export-policy-create", EDUPLICATEENTRY)

delete_nfs_export_policy(p) ==
    /\ op[p].kind = "delete_nfs_export_policy"
    /\ send_or_reraise(p, "export-policy-destroy", EOBJECTNOTFOUND)

create_vlan(p) ==
    /\ op[p].kind = "_create_vlan"
    /\ send_or_wrap(p, "net-vlan-create", EDUPLICATEENTRY)

create_kerberos_realm(p) ==
    /\ op[p].kind = "create_kerberos_realm"
    /\ send_or_wrap(p, "kerberos-realm-create", EDUPLICATEENTRY)

configure_dns(p) ==
    /\ op[p].kind = "configure_dns"
    /\ send_or_wrap(p, "net-dns-create", EDUPLICATEENTRY)

\* try: self.delete_nfs_export_policy(policy_name)
\* except NaApiError: self.rename_nfs_export_policy(policy_name, ...)
soft_delete_nfs_export_policy(p) ==
    /\ op[p].kind = "soft_delete_nfs_export_policy"
    /\ pc[p] = "client"
    /\ \E result \in ApiResults :
         IF result \in {"ok", EOBJECTNOTFOUND}
         THEN /\ Log(p, "export-policy-destroy")
              /\ ClientReturn(p, result)
         ELSE /\ log' = [log EXCEPT ![p] = @ \o <<"export-policy-destroy",
                                                   "export-policy-rename">>]
              /\ \E renamed \in ApiResults :
                   IF renamed = "ok" THEN ClientReturn(p, result)
                   ELSE ClientRaise(p, result, "NaApiError", renamed)
    /\ UNCHANGED <<op, overlap, ncalls, held, hostVars, vols, snaps,
                   accessVars, sshVars, serviceVars>>

\* _terminate_vserver_services for one security service of type
\* 'active_directory':
\*   try: send_request('cifs-server-delete', api_args)
\*   except NaApiError as e: if e.code == EOBJECTNOTFOUND: LOG.error(...)
\*                           else: send_request('cifs-server-delete')
terminate_vserver_services(p) ==
    /\ op[p].kind = "_terminate_vserver_services"
    /\ pc[p] = "client"
    /\ \E result \in ApiResults :
         IF result \in {"ok", EOBJECTNOTFOUND}
         THEN /\ Log(p, "cifs-server-delete")
              /\ ClientReturn(p, result)
         ELSE /\ log' = [log EXCEPT ![p] = @ \o <<"cifs-server-delete",
                                                   "cifs-server-delete">>]
              /\ \E again \in ApiResults :
                   IF again = "ok" THEN ClientReturn(p, result)
                   ELSE ClientRaise(p, result, "NaApiError", again)
    /\ UNCHANGED <<op, overlap, ncalls, held, hostVars, vols, snaps,
                   accessVars, sshVars, serviceVars>>

\* The calls of the client that catch NaApiError around their request.
ClientOps == {"offline_volume", "_remove_nfs_export_rules",
              "create_nfs_export_policy", "delete_nfs_export_policy",
              "_create_vlan", "create_kerberos_realm", "configure_dns",
              "soft_delete_nfs_export_policy", "_terminate_vserver_services"}

call_client(p) ==
    \E kind \in ClientOps :
        /\ ncalls < MaxCalls
        /\ BeginOp(p, [NoOp EXCEPT !.kind = kind], NoVolume, "client")
        /\ UNCHANGED <<held, hostVars, vols, snaps, accessVars, sshVars,
                       serviceVars>>

(***************************************************************************)
(* Service.report_state: the periodic report of a service to the database. *)
(***************************************************************************)
\* A report_state that leaves model_disconnected as it was when the lookup
\* succeeds.
report_state_broken(p) ==
    /\ pc[p] = "report_state"
    /\ \E found \in BOOLEAN :
         IF found
         THEN /\ log' = [log EXCEPT ![p] = @ \o <<"service_get",
                                                   "service_update">>]
              /\ report_count' = report_count + 1
              /\ UNCHANGED <<model_disconnected, loc>>
         ELSE /\ Log(p, "service_get")
              /\ loc' = [loc EXCEPT ![p].err = "Exception"]
              /\ model_disconnected' = TRUE
              /\ UNCHANGED report_count
    /\ Goto(p, "done")
    /\ UNCHANGED <<op, overlap, ncalls, held, hostVars, vols, snaps,
                   accessVars, sshVars>>

\* report_state looks the service record up (db.service_get), writes the
\* record back with its report count raised by one (db.service_update) and
\* clears model_disconnected; when the lookup raises, it sets
\* model_disconnected and returns.  loc.err is the exception it caught.
report_state(p) ==
    /\ pc[p] = "report_state"
    /\ \E found \in BOOLEAN :
         IF found
         THEN /\ log' = [log EXCEPT ![p] = @ \o <<"service_get",
                                                   "service_update">>]
              /\ report_count' = report_count + 1
              /\ model_disconnected' = FALSE
              /\ UNCHANGED loc
         ELSE /\ Log(p, "service_get")
              /\ loc' = [loc EXCEPT ![p].err = "Exception"]
              /\ model_disconnected' = TRUE
              /\ UNCHANGED report_count
    /\ Goto(p, "done")
    /\ UNCHANGED <<op, overlap, ncalls, held, hostVars, vols, snaps,
                   accessVars, sshVars>>

\* serv.report_state(), as the service's periodic task and the tests call it.
\* A thread that has returned from a report makes the next one.
call_report_state(p) ==
    /\ ncalls < MaxReports
    /\ pc[p] \in {"idle", "done"}
    /\ BeginOp(p, [NoOp EXCEPT !.kind = "report_state"], NoVolume,
               "report_state")
    /\ UNCHANGED <<held, hostVars, vols, snaps, accessVars, sshVars,
                   serviceVars>>

(***************************************************************************)
(* The lifecycle calls, as the share manager makes them: each request is    *)
(* served by a thread of its own, one request per share at a time, against *)
(* any share server.                                                       *)
(***************************************************************************)
ShareIdle(share) == \A q \in Procs : InCall(q) => op[q].share # share

call_create_share(p) ==
    \E share \in Shares, server \in Hosts :
        /\ pc[p] = "idle"
        /\ ShareIdle(share)
        /\ Begin(p, "create_share", share, server, NoVolume, "ensure_server")
        /\ UNCHANGED <<held, hostVars, vols, snaps, accessVars, sshVars,
                       serviceVars>>

call_create_share_from_snapshot(p) ==
    \E share \in Shares, server \in Hosts :
        /\ pc[p] = "idle"
        /\ ShareIdle(share)
        /\ Begin(p, "create_share_from_snapshot", share, server, NoVolume,
                 "ensure_server")
        /\ UNCHANGED <<held, hostVars, vols, snaps, accessVars, sshVars,
                       serviceVars>>

call_ensure_share(p) ==
    \E share \in Shares, server \in Hosts :
        /\ pc[p] = "idle"
        /\ ShareIdle(share)
        /\ Begin(p, "ensure_share", share, server, NoVolume, "ensure_server")
        /\ UNCHANGED <<held, hostVars, vols, snaps, accessVars, sshVars,
                       serviceVars>>

call_delete_share(p) ==
    \E share \in Shares, server \in Hosts :
        /\ pc[p] = "idle"
        /\ ShareIdle(share)
        /\ Begin(p, "delete_share", share, server, NoVolume, "check_server")
        /\ UNCHANGED <<held, hostVars, vols, snaps, accessVars, sshVars,
                       serviceVars>>

(***************************************************************************)
(* Specifications.                                                         *)
(***************************************************************************)
\* The driver keeps no state of its own across restarts: when it starts, the
\* backends hold either nothing or a share that an earlier run of the driver
\* created on host h1 and left ready (volume 1 attached, mounted, persisted
\* and, for CIFS, defined as a share section).
Init ==
    /\ pc = [p \in Procs |-> "idle"]
    /\ op = [p \in Procs |-> NoOp]
    /\ loc = [p \in Procs |-> NoLoc]
    /\ log = [p \in Procs |-> <<>>]
    /\ held = {}
    /\ \E ready \in {None} \cup Shares :
         LET table == IF ready = None THEN <<>>
                      ELSE <<Entry(mountpoint(Volume(1, "in-use")),
                                   get_mount_path(ready))>>
         IN /\ mtab = [h \in Hosts |-> IF h = "h1" THEN table ELSE <<>>]
            /\ fstab = mtab
            /\ exports = IF ready # None /\ share_proto(ready) = "CIFS"
                         THEN {<<"h1", ready>>} ELSE {}
            /\ vols = [v \in VolIds |->
                         IF ready # None /\ v = 1
                         THEN VolRec("in-use", get_volume_name(ready), "h1")
                         ELSE Absent]
            /\ hosts_allow = [e \in Hosts \X Shares |->
                                IF e \in exports THEN <<ip_127_0_0_1>>
                                ELSE <<>>]
    /\ snaps = [k \in SnapIds |-> NoSnap]
    /\ nfs_exports = {}
    /\ nfs_exports_file = {}
    /\ ssh_connections = [h \in Hosts |-> NoSession]
    /\ sessions = [k \in SessIds |-> "unused"]
    /\ model_disconnected = FALSE
    /\ report_count = 0
    /\ overlap = [p \in Procs |-> {}]
    /\ ncalls = 0

\* The mount helpers called concurrently.
MountNext ==
    \E p \in Procs :
        \/ call_mount_device(p)
        \/ call_unmount_device(p)
        \/ mount_device_lock(p)
        \/ mount_device_probe(p)
        \/ mount_device_cmd(p)
        \/ unmount_device_lock(p)
        \/ unmount_device_probe(p)
        \/ unmount_device_cmd(p)
        \/ sync_mount_cp(p)
        \/ sync_mount_all(p)

MountSpec == Init /\ [][MountNext]_vars

\* The share lifecycle calls run concurrently.
Next ==
    \E p \in Procs :
        \/ call_create_share(p)
        \/ call_create_share_from_snapshot(p)
        \/ call_ensure_share(p)
        \/ call_delete_share(p)
        \/ ensure_server(p)
        \/ allocate_container_snapshot(p)
        \/ allocate_container_create(p)
        \/ allocate_container_wait(p)
        \/ attach_volume_lock(p)
        \/ do_attach_call(p)
        \/ do_attach_wait(p)
        \/ format_device(p)
        \/ mount_device_lock(p)
        \/ mount_device_probe(p)
        \/ mount_device_cmd(p)
        \/ sync_mount_cp(p)
        \/ sync_mount_all(p)
        \/ create_export(p)
        \/ ensure_share_lookup(p)
        \/ delete_share_check_server(p)
        \/ remove_export(p)
        \/ unmount_device_lock(p)
        \/ unmount_device_probe(p)
        \/ unmount_device_cmd(p)
        \/ detach_volume_lock(p)
        \/ do_detach_call(p)
        \/ do_detach_wait(p)
        \/ deallocate_container_delete(p)
        \/ deallocate_container_wait(p)

Spec == Init /\ [][Next]_vars

\* One thread runs lifecycle and snapshot calls one after the other: the
\* waits of the driver without interference.
WaitNext ==
    \E p \in {"t1"} :
        \/ call_create_share(p)
        \/ call_create_share_from_snapshot(p)
        \/ call_ensure_share(p)
        \/ call_delete_share(p)
        \/ call_create_snapshot(p)
        \/ call_delete_snapshot(p)
        \/ ensure_server(p)
        \/ allocate_container_snapshot(p)
        \/ allocate_container_create(p)
        \/ allocate_container_wait(p)
        \/ attach_volume_lock(p)
        \/ do_attach_call(p)
        \/ do_attach_wait(p)
        \/ format_device(p)
        \/ mount_device_lock(p)
        \/ mount_device_probe(p)
        \/ mount_device_cmd(p)
        \/ sync_mount_cp(p)
        \/ sync_mount_all(p)
        \/ create_export(p)
        \/ ensure_share_lookup(p)
        \/ delete_share_check_server(p)
        \/ remove_export(p)
        \/ unmount_device_lock(p)
        \/ unmount_device_probe(p)
        \/ unmount_device_cmd(p)
        \/ detach_volume_lock(p)
        \/ do_detach_call(p)
        \/ do_detach_wait(p)
        \/ deallocate_container_delete(p)
        \/ deallocate_container_wait(p)
        \/ create_snapshot_lookup(p)
        \/ create_snapshot_create(p)
        \/ create_snapshot_wait(p)
        \/ delete_snapshot_delete(p)
        \/ delete_snapshot_wait(p)

WaitSpec == Init /\ [][WaitNext]_vars

\* The thread keeps running: time.sleep and the backend calls return.
FairWaitSpec == WaitSpec /\ WF_vars(WaitNext)

\* Access rules granted concurrently.
AccessNext ==
    \E p \in Procs :
        \/ call_allow_access(p)
        \/ ensure_server(p)
        \/ allow_access_level(p)
        \/ nfs_allow_lock(p)
        \/ nfs_allow_check(p)
        \/ nfs_allow_add(p)
        \/ nfs_sync(p)
        \/ cifs_allow_get(p)
        \/ cifs_allow_set(p)

AccessSpec == Init /\ [][AccessNext]_vars

\* Access rules revoked concurrently with one another and with the granting
\* of rules; the rules granted here are those the helpers accept (by IP
\* address, read-write or read-only).
RevokeNext ==
    \E p \in Procs :
        \/ /\ call_allow_access(p)
           /\ op'[p].access.access_type = "ip"
           /\ op'[p].access.access_level \in {"rw", "ro"}
        \/ ensure_server(p)
        \/ allow_access_level(p)
        \/ nfs_allow_lock(p)
        \/ nfs_allow_check(p)
        \/ nfs_allow_add(p)
        \/ nfs_sync(p)
        \/ cifs_allow_get(p)
        \/ cifs_allow_set(p)
        \/ call_deny_access(p)
        \/ nfs_deny_lock(p)
        \/ nfs_deny_cmd(p)
        \/ cifs_deny_get(p)
        \/ cifs_deny_set(p)

RevokeSpec == Init /\ [][RevokeNext]_vars

\* Exports created on hosts whose shares have been granted to clients.
ExportNext ==
    \E p \in Procs :
        \/ call_create_export(p)
        \/ create_export(p)
        \/ call_allow_access(p)
        \/ ensure_server(p)
        \/ allow_access_level(p)
        \/ nfs_allow_lock(p)
        \/ nfs_allow_check(p)
        \/ nfs_allow_add(p)
        \/ nfs_sync(p)
        \/ cifs_allow_get(p)
        \/ cifs_allow_set(p)

ExportSpec == Init /\ [][ExportNext]_vars

\* Shares taken under management on hosts where devices get mounted.
ManageNext ==
    \E p \in Procs :
        \/ call_manage_existing(p)
        \/ manage_existing_path(p)
        \/ manage_existing_probe(p)
        \/ manage_existing_get_volume(p)
        \/ manage_existing_attached(p)
        \/ manage_existing_update(p)
        \/ manage_existing_df(p)
        \/ call_mount_device(p)
        \/ mount_device_lock(p)
        \/ mount_device_probe(p)
        \/ mount_device_cmd(p)
        \/ sync_mount_cp(p)
        \/ sync_mount_all(p)

ManageSpec == Init /\ [][ManageNext]_vars

\* Commands sent to the hosts by two threads, while transports die.
SshNext ==
    \/ \E p \in Procs :
          \/ call_ssh_exec(p)
          \/ ssh_exec_get(p)
          \/ ssh_exec_create(p)
          \/ ssh_exec_run(p)
    \/ \E k \in SessIds : transport_dies(k)

SshSpec == Init /\ [][SshNext]_vars

\* The calls of the NetApp client against an API that answers or fails.
ClientNext ==
    \E p \in Procs :
        \/ call_client(p)
        \/ offline_volume(p)
        \/ remove_nfs_export_rules(p)
        \/ create_nfs_export_policy(p)
        \/ delete_nfs_export_policy(p)
        \/ create_vlan(p)
        \/ create_kerberos_realm(p)
        \/ configure_dns(p)
        \/ soft_delete_nfs_export_policy(p)
        \/ terminate_vserver_services(p)

ClientSpec == Init /\ [][ClientNext]_vars

\* The service reports its state while the database comes and goes.
ServiceNext ==
    \E p \in Procs :
        \/ call_report_state(p)
        \/ report_state(p)

ServiceSpec == Init /\ [][ServiceNext]_vars

\* Lifecycle and access calls contending for the three locks of one service
\* host: share s1 is created and share s2 deleted on host h1 while a
\* read-write rule for one client address is granted and revoked there.
LockNext ==
    \E p \in Procs :
        \/ /\ call_create_share(p)
           /\ op'[p].server = "h1" /\ op'[p].share = "s1"
        \/ /\ call_delete_share(p)
           /\ op'[p].server = "h1" /\ op'[p].share = "s2"
        \/ /\ call_allow_access(p)
           /\ op'[p].server = "h1" /\ op'[p].share = "s1"
           /\ op'[p].access = Access("ip", "rw", ip_10_0_0_1)
        \/ /\ call_deny_access(p)
           /\ op'[p].server = "h1" /\ op'[p].share = "s1"
           /\ op'[p].access = Access("ip", "rw", ip_10_0_0_1)
           /\ ~op'[p].force
        \/ ensure_server(p)
        \/ allocate_container_create(p)
        \/ allocate_container_wait(p)
        \/ attach_volume_lock(p)
        \/ do_attach_call(p)
        \/ do_attach_wait(p)
        \/ format_device(p)
        \/ mount_device_lock(p)
        \/ mount_device_probe(p)
        \/ mount_device_cmd(p)
        \/ sync_mount_cp(p)
        \/ sync_mount_all(p)
        \/ create_export(p)
        \/ delete_share_check_server(p)
        \/ remove_export(p)
        \/ unmount_device_lock(p)
        \/ unmount_device_probe(p)
        \/ unmount_device_cmd(p)
        \/ detach_volume_lock(p)
        \/ do_detach_call(p)
        \/ do_detach_wait(p)
        \/ deallocate_container_delete(p)
        \/ deallocate_container_wait(p)
        \/ allow_access_level(p)
        \/ nfs_allow_lock(p)
        \/ nfs_allow_check(p)
        \/ nfs_allow_add(p)
        \/ nfs_sync(p)
        \/ nfs_deny_lock(p)
        \/ nfs_deny_cmd(p)

LockSpec == Init /\ [][LockNext]_vars

\* Every thread that can take a step eventually takes one.
FairLockSpec == LockSpec /\ WF_vars(LockNext)

(***************************************************************************)
(* Properties.                                                             *)
(***************************************************************************)
Issued(p, event) == \E i \in 1..Len(log[p]) : log[p][i] = event
Ended(p) == pc[p] \in {"done", "failed"}
LastIssued(p) == IF log[p] = <<>> THEN None ELSE log[p][Len(log[p])]

\* Device dev is mounted at path on host h.
MountedAt(h, dev, path) ==
    \E i \in 1..Len(mtab[h]) : mtab[h][i] = [dev |-> dev, path |-> path]

\* p is inside the body guarded by the mounts lock: from the isMounted probe
\* to the end of the persist step.
InMountCS(p) ==
    pc[p] \in {"mnt_probe", "mnt_cmd", "umnt_probe", "umnt_cmd", "sync_cp",
               "sync_mount_a"}
\* p is inside do_attach or do_detach, polling loop included.
InAttachCS(p) == pc[p] \in {"att_check", "att_wait", "det_check", "det_wait"}

\* The latest calls of p and q are _mount_device calls for the same share,
\* host and volume, and ran concurrently.
ConcurrentMounts(p, q) ==
    /\ p # q
    /\ q \in overlap[p]
    /\ op[p].kind = "_mount_device" /\ op[q].kind = "_mount_device"
    /\ op[p].share = op[q].share
    /\ op[p].server = op[q].server
    /\ loc[p].volume = loc[q].volume

\* C1, as stated: of two concurrent mount calls for the same share on the same
\* host, at most one issues the mount command.
C1_OnlyOneIssuesMount ==
    \A p, q \in Procs :
        ConcurrentMounts(p, q) =>
            ~(Issued(p, "mount_cmd") /\ Issued(q, "mount_cmd"))

\* C1, amended: the mount command is never issued while the volume's device
\* is mounted at the share's path, so of two concurrent mount calls for the
\* same share on the same host at most one mounts the device (both issue the
\* command only when one command failed without mounting).
C1_NoMountWhileMounted ==
    /\ \A p \in Procs :
         pc[p] = "mnt_cmd" =>
             ~MountedAt(op[p].server, mountpoint(loc[p].volume),
                        <<share_mount_path, op[p].share>>)
    /\ \A p, q \in Procs :
         ConcurrentMounts(p, q) => ~(loc[p].mounted /\ loc[q].mounted)

\* Two concurrent mount calls have ended; one mounted the device, the other
\* found it mounted and issued the probe only.
C1_Witness ==
    \E p, q \in Procs :
        /\ ConcurrentMounts(p, q)
        /\ pc[p] = "done" /\ pc[q] = "done"
        /\ loc[p].mounted
        /\ log[q] = <<"mount_list">>

\* C2: at any time at most one caller per host is between the isMounted probe
\* and the end of the persist step of _mount_device or _unmount_device.
C2_MountsExclusive ==
    \A p, q \in Procs :
        p # q /\ InMountCS(p) /\ InMountCS(q) => op[p].server # op[q].server

\* A mount call is inside the guarded body while an unmount call for the same
\* host waits for the lock.
C2_Witness ==
    \E p, q \in Procs :
        /\ op[p].kind = "_mount_device" /\ InMountCS(p)
        /\ pc[q] = "umnt_lock"
        /\ op[p].server = op[q].server

\* C5: a caller waiting for the mounts lock of a host is blocked only by a
\* caller inside the guarded body for that same host; callers on other hosts
\* do not hold its lock.
C5_HostsIndependent ==
    \A p \in Procs :
        /\ pc[p] \in {"mnt_lock", "umnt_lock"}
        /\ \A q \in Procs \ {p} :
             InMountCS(q) => op[q].server # op[p].server
        => lock_free(held, mounts_lock_name(op[p].server))

\* Mount critical sections for two different hosts are in progress together.
C5_Witness ==
    \E p, q \in Procs :
        /\ op[p].kind = "_mount_device" /\ op[q].kind = "_mount_device"
        /\ pc[p] = "mnt_cmd" /\ pc[q] = "mnt_cmd"
        /\ op[p].server # op[q].server

\* The thread holds no lock at all.
HoldsNothing(p) == \A e \in held : e[2] # p

\* C3: at any time at most one caller per instance id is inside do_attach or
\* do_detach, status polling loop included.
C3_AttachDetachExclusive ==
    \A p, q \in Procs :
        p # q /\ InAttachCS(p) /\ InAttachCS(q) => op[p].server # op[q].server

\* A delete_share polls inside do_detach while a call for another share waits
\* for the attach lock of the same instance.
C3_Witness ==
    \E p, q \in Procs :
        /\ pc[p] = "det_wait"
        /\ pc[q] = "att_lock"
        /\ op[p].server = op[q].server

\* C4: a per-host lock is held exactly by the caller that is inside the body
\* it guards; a call that has left the body, by returning or by raising,
\* holds nothing, so a later caller for the same host acquires the lock.
C4_LockReleasedOnExit ==
    /\ \A p \in Procs :
         /\ InMountCS(p) <=> <<mounts_lock_name(op[p].server), p>> \in held
         /\ InAttachCS(p) <=>
              <<attach_detach_lock_name(op[p].server), p>> \in held
         /\ Ended(p) => HoldsNothing(p)
    /\ \A p \in Procs :
         /\ pc[p] \in {"mnt_lock", "umnt_lock"}
         /\ \A q \in Procs : ~(InMountCS(q) /\ op[q].server = op[p].server)
         => lock_free(held, mounts_lock_name(op[p].server))
    /\ \A p \in Procs :
         /\ pc[p] \in {"att_lock", "det_lock"}
         /\ \A q \in Procs : ~(InAttachCS(q) /\ op[q].server = op[p].server)
         => lock_free(held, attach_detach_lock_name(op[p].server))

\* A call failed inside do_attach, and a later caller holds the attach lock
\* of the same host.
C4_Witness ==
    \E p, q \in Procs :
        /\ pc[p] = "failed" /\ LastIssued(p) = "volume_attach"
        /\ p \notin overlap[q]
        /\ InAttachCS(q)
        /\ op[p].server = op[q].server

\* No other thread's latest call concerns the share of p's call.
ShareUntouched(p) == \A q \in Procs \ {p} : op[q].share # op[p].share

\* The steps of create_share, in the order of the code, and the subsequence
\* of them in a call's log.
CreateSteps == <<"volume_create", "volume_attach", "mkfs", "mount_cmd",
                 "create_export">>
IsCreateStep(e) == \E i \in 1..Len(CreateSteps) : CreateSteps[i] = e
StepsOf(p) == SelectSeq(log[p], IsCreateStep)

\* C6: a successful create_share has run allocate, attach, format, mount and
\* export in that order, each once; the device is mounted at
\* <mount_root>/<share_name>, and for NFS the location returned is
\* <public address>:<mount_root>/<share_name>.
C6_CreateSharePipeline ==
    \A p \in Procs :
        op[p].kind = "create_share" /\ pc[p] = "done" =>
            /\ StepsOf(p) = CreateSteps
            /\ ShareUntouched(p) =>
                 MountedAt(op[p].server, mountpoint(loc[p].volume),
                           <<"/shares", op[p].share>>)
            /\ share_proto(op[p].share) = "NFS" =>
                 loc[p].location =
                     <<public_address(op[p].server), ":",
                       <<"/shares", op[p].share>>>>

\* A create_share of an NFS share has succeeded.
C6_Witness ==
    \E p \in Procs :
        /\ op[p].kind = "create_share" /\ pc[p] = "done"
        /\ share_proto(op[p].share) = "NFS"
        /\ loc[p].location # <<>>

\* C7, as stated: in create_share, create_share_from_snapshot and
\* ensure_share the attach call is issued only for a volume whose status was
\* observed as 'available', and the mount command only for a volume whose
\* status was observed as 'in-use'.
C7_AttachAfterAvailable ==
    \A p \in Procs :
        op[p].kind \in {"create_share", "create_share_from_snapshot",
                        "ensure_share"} =>
            /\ Issued(p, "volume_attach") => loc[p].attached_as = "available"
            /\ Issued(p, "mount_cmd") => loc[p].volume.status = "in-use"

\* Nothing but the volume delete is in the log: no remote command, no detach.
OnlyVolumeDelete(p) == log[p] \in {<<>>, <<"volume_delete">>}

\* C8, as stated: delete_share with a missing or inactive host issues no
\* remote command and no detach call, and deallocates the backing volume
\* (the volume its lookup found).
C8_InactiveHostDeallocates ==
    \A p \in Procs :
        /\ op[p].kind = "delete_share" /\ ~loc[p].active /\ Ended(p)
        /\ loc[p].volume # NoVolume
        => /\ OnlyVolumeDelete(p)
           /\ Issued(p, "volume_delete")

\* C8, amended: delete_share with a missing or inactive host issues no remote
\* command and no detach call and goes on to the deallocation step, which
\* issues the volume delete exactly when the share's volume is found and its
\* status is not 'in-use'; when the call succeeds the share has no volume.
C8_InactiveHostSkipsTeardown ==
    \A p \in Procs :
        op[p].kind = "delete_share" /\ ~loc[p].active /\ Ended(p) =>
            /\ OnlyVolumeDelete(p)
            /\ Issued(p, "volume_delete") <=>
                 /\ loc[p].volume # NoVolume
                 /\ loc[p].volume.status # "in-use"
            /\ pc[p] = "done" /\ ShareUntouched(p) =>
                 \A v \in VolIds :
                     vols[v].name # <<"manila-share-", op[p].share>>

\* A delete_share with an inactive host has deleted the share's volume.
C8_Witness ==
    \E p \in Procs :
        /\ op[p].kind = "delete_share" /\ ~loc[p].active /\ pc[p] = "done"
        /\ log[p] = <<"volume_delete">>

\* The steps of delete_share that precede the deallocation.
TeardownEvents == {"remove_export", "mount_list", "umount_cmd", "cp",
                   "mount_a", "volume_detach"}
\* The logs of a teardown that ran to its end on an active host.
CompleteTeardowns ==
    {<<"remove_export", "mount_list">> \o u \o d :
        u \in {<<>>, <<"umount_cmd", "cp", "mount_a">>},
        d \in {<<>>, <<"volume_detach">>}}

\* C9, as stated: when export removal, unmount or detach fails on an active
\* host, delete_share still issues the volume delete.
C9_DeleteIgnoresTeardownFailure ==
    \A p \in Procs :
        /\ op[p].kind = "delete_share" /\ loc[p].active /\ Ended(p)
        /\ LastIssued(p) \in {"remove_export", "umount_cmd", "volume_detach"}
        /\ \E v \in VolIds : vols[v].name = <<"manila-share-", op[p].share>>
        => Issued(p, "volume_delete")

\* C9, amended: delete_share issues the volume delete only after export
\* removal, unmount and detach have each completed without error (or were
\* skipped for an inactive host); a failure of one of them ends the call
\* with that error, and the deallocation step is not run.
C9_DeleteAbortsOnTeardownFailure ==
    \A p \in Procs :
        op[p].kind = "delete_share" =>
            /\ pc[p] \in {"dealloc", "dealloc_wait", "done"} =>
                 loc[p].err = None
            /\ loc[p].active /\ Issued(p, "volume_delete") =>
                 \E t \in CompleteTeardowns :
                     log[p] = Append(t, "volume_delete")
            /\ pc[p] = "failed" /\ LastIssued(p) \in TeardownEvents =>
                 ~Issued(p, "volume_delete")

\* The unmount of a delete_share failed on an active host: the call has
\* ended with the error, no volume delete was issued and the volume remains.
C9_Witness ==
    \E p \in Procs :
        /\ op[p].kind = "delete_share" /\ loc[p].active /\ pc[p] = "failed"
        /\ LastIssued(p) = "umount_cmd"
        /\ ~Issued(p, "volume_delete")
        /\ \E v \in VolIds : vols[v].name = <<"manila-share-", op[p].share>>

\* C10: a create_share that failed ran a prefix of its pipeline and issued no
\* teardown call; what the earlier steps produced is left in place: the
\* volume exists, is attached if the attach step was passed, and is mounted
\* if the mount command mounted it.
C10_FailedCreateNoRollback ==
    \A p \in Procs :
        op[p].kind = "create_share" /\ pc[p] = "failed" =>
            /\ IsPrefix(log[p], <<"volume_create", "volume_attach", "mkfs",
                                  "mount_list", "mount_cmd", "cp", "mount_a",
                                  "create_export">>)
            /\ ShareUntouched(p) /\ loc[p].volume # NoVolume =>
                 LET v == loc[p].volume.id IN
                 /\ vols[v].status \notin {"absent", "deleting"}
                 /\ vols[v].name = <<"manila-share-", op[p].share>>
                 /\ Issued(p, "mkfs") =>
                      vols[v].status = "in-use" /\ vols[v].host = op[p].server
                 /\ loc[p].mounted =>
                      MountedAt(op[p].server, mountpoint(loc[p].volume),
                                <<"/shares", op[p].share>>)

\* A create_share failed at the format step; its volume is still attached.
C10_Witness ==
    \E p \in Procs :
        /\ op[p].kind = "create_share" /\ pc[p] = "failed"
        /\ LastIssued(p) = "mkfs"
        /\ vols[loc[p].volume.id].status = "in-use"

\* C11, as stated: when create_share failed for a share that had no volume
\* and a later create_share for the same share succeeded, exactly one
\* backend volume carries the share's volume name.  (The first call of a run
\* is made by thread t1, and calls for one share do not overlap.)
C11_RetryLeavesOneVolume ==
    LET named == volumes_by_name(<<"manila-share-", op["t1"].share>>) IN
    /\ op["t1"].kind = "create_share" /\ pc["t1"] = "failed"
    /\ op["t2"].kind = "create_share" /\ pc["t2"] = "done"
    /\ op["t2"].share = op["t1"].share
    /\ named \subseteq {loc["t1"].volume.id, loc["t2"].volume.id}
    => Cardinality(named) = 1

\* C12, as stated: when create_share has ended in failure, the device of its
\* volume is not mounted at the share's mount path.
C12_FailedCreateLeavesNoMount ==
    \A p \in Procs :
        op[p].kind = "create_share" /\ pc[p] = "failed" =>
            ~MountedAt(op[p].server, <<"/dev/vol", loc[p].volume.id>>,
                       <<"/shares", op[p].share>>)

\* C12, amended: a create_share that failed before it issued the mount
\* command leaves its volume's device mounted nowhere; one that failed
\* after its mount command mounted the device (at the chmod, the persist
\* step or the export) leaves the device mounted at the share's path.
C12_MountLeftOnlyAfterMountCommand ==
    \A p \in Procs :
        op[p].kind = "create_share" /\ pc[p] = "failed" /\ ShareUntouched(p)
        => /\ ~Issued(p, "mount_cmd") =>
                \A h \in Hosts : \A i \in 1..Len(mtab[h]) :
                    mtab[h][i].dev # <<"/dev/vol", loc[p].volume.id>>
           /\ loc[p].mounted <=>
                MountedAt(op[p].server, <<"/dev/vol", loc[p].volume.id>>,
                          <<"/shares", op[p].share>>)

\* A create_share failed at the export step, after mount and persist; the
\* device is still mounted at the share's path.
C12_Witness ==
    \E p \in Procs :
        /\ op[p].kind = "create_share" /\ pc[p] = "failed"
        /\ ShareUntouched(p)
        /\ LastIssued(p) = "create_export"
        /\ MountedAt(op[p].server, <<"/dev/vol", loc[p].volume.id>>,
                     <<"/shares", op[p].share>>)

\* C13: ensure_share issues no volume create; while it has found no volume
\* it has issued nothing, and when it returns after finding the share's
\* volume it has run the attach step on that volume (the volume is 'in-use'
\* on the share server), the mount step and the export step.
C13_EnsureShareNeverAllocates ==
    \A p \in Procs :
        op[p].kind = "ensure_share" =>
            /\ ~Issued(p, "volume_create")
            /\ loc[p].volume = NoVolume => log[p] = <<>>
            /\ pc[p] = "done" /\ loc[p].volume # NoVolume =>
                 /\ loc[p].volume.status = "in-use"
                 /\ Issued(p, "mount_list")
                 /\ LastIssued(p) = "create_export"
                 /\ loc[p].location # <<>>
                 /\ ShareUntouched(p) =>
                      LET v == vols[loc[p].volume.id] IN
                      /\ v.name = <<"manila-share-", op[p].share>>
                      /\ v.status = "in-use" /\ v.host = op[p].server

\* An ensure_share has attached, mounted and exported the volume that an
\* earlier create_share left unattached.
C13_Witness ==
    \E p \in Procs :
        /\ op[p].kind = "ensure_share" /\ pc[p] = "done"
        /\ log[p] = <<"volume_attach", "mount_list", "mount_cmd", "cp",
                      "mount_a", "create_export">>

\* Two calls were made so far, both _mount_device calls with the same share,
\* host and volume, the second one (by t2) after the first one (by t1) ended.
MountTwice ==
    /\ ncalls = 2
    /\ op["t1"].kind = "_mount_device" /\ op["t2"] = op["t1"]
    /\ loc["t2"].volume.id = loc["t1"].volume.id
    /\ "t1" \notin overlap["t2"]

\* C14: when _mount_device has succeeded and is called again for the same
\* share, host and volume, the second call issues the mount-table listing
\* and nothing else: no mkdir/mount/chmod command and no persist command.
C14_SecondMountIsNoOp ==
    MountTwice /\ pc["t1"] = "done" =>
        /\ IsPrefix(log["t2"], <<"mount_list">>)
        /\ Ended("t2") => log["t2"] = <<"mount_list">>
        /\ ~loc["t2"].mounted

\* The first call mounted and persisted the device; the second call has
\* returned after the probe.
C14_Witness ==
    /\ MountTwice
    /\ pc["t1"] = "done"
    /\ log["t1"] = <<"mount_list", "mount_cmd", "cp", "mount_a">>
    /\ pc["t2"] = "done"
    /\ log["t2"] = <<"mount_list">>

\* C15: in the state a successful _mount_device returns in, the probe finds
\* the volume's device mounted at the share's path on the host, and in the
\* state a successful _unmount_device returns in, the probe finds nothing
\* mounted at the share's path.
C15_IsMountedAfterMountAndUnmount ==
    [][\A p \in Procs :
          pc[p] # "done" /\ pc'[p] = "done" =>
              /\ op[p].kind = "_mount_device" =>
                   is_device_mounted(get_mount_path(op[p].share),
                                     mtab'[op[p].server], loc[p].volume)
              /\ op[p].kind = "_unmount_device" =>
                   ~is_device_mounted(get_mount_path(op[p].share),
                                      mtab'[op[p].server], NoVolume)]_vars

\* An _unmount_device has unmounted the share's path, persisted the change
\* and returned while nothing else ran on the host.
C15_Witness ==
    \E p \in Procs :
        /\ op[p].kind = "_unmount_device" /\ pc[p] = "done"
        /\ log[p] = <<"mount_list", "umount_cmd", "cp", "mount_a">>
        /\ \A q \in Procs \ {p} : ~InCall(q)
        /\ ~is_device_mounted(get_mount_path(op[p].share),
                              mtab[op[p].server], NoVolume)

\* C16, as stated: when a _mount_device call mounted the device and failed
\* in the persist step, and _mount_device is called again for the same
\* share and succeeds, the device is mounted and the mount is persisted.
C16_RemountPersists ==
    /\ MountTwice
    /\ pc["t1"] = "failed" /\ loc["t1"].mounted
    /\ LastIssued("t1") \in {"cp", "mount_a"}
    /\ pc["t2"] = "done"
    => LET e == [dev |-> <<"/dev/vol", loc["t1"].volume.id>>,
                 path |-> <<"/shares", op["t1"].share>>]
       IN /\ MountedAt(op["t1"].server, e.dev, e.path)
          /\ \E i \in 1..Len(fstab[op["t1"].server]) :
                fstab[op["t1"].server][i] = e

\* The waits whose poll can report 'error', and what each raises then.
ErrorWaits == {"alloc_wait", "snap_wait", "att_wait"}

FailedMsg(label) ==
    CASE label = "alloc_wait" -> "Failed to create volume"
      [] label = "snap_wait" -> "Failed to create volume snapshot"
      [] label = "att_wait" -> "Failed to attach volume %s"

\* The time budget of each wait.
Budget(label) ==
    IF label \in {"att_wait", "det_wait"} THEN max_time_to_attach
    ELSE max_time_to_create_volume

\* The status the last poll of the wait at `label` returned to thread p.
Polled(p, label) ==
    IF label = "snap_wait" THEN loc[p].volume_snapshot.status
    ELSE loc[p].volume.status

\* C17: in the volume-creation, snapshot-creation and attach waits, once a
\* poll made before the deadline has returned the 'error' status, the next
\* step of the call ends it with the operation-failed message of that wait,
\* never with a timeout and never with another poll.
C17_ErrorBeforeDeadlineFails ==
    [][\A p \in Procs :
         /\ (/\ pc[p] \in {"alloc_wait", "snap_wait"}
             /\ Polled(p, pc[p]) = "error"
             /\ loc[p].t < Budget(pc[p])
             /\ <<pc[p], loc[p]>> # <<pc[p], loc[p]>>'
             => /\ pc'[p] = "failed"
                /\ loc'[p].msg = FailedMsg(pc[p]))
         /\ (/\ pc[p] = "att_wait"
             /\ loc[p].t < Budget(pc[p])
             /\ pc'[p] # pc[p]
             /\ Polled(p, "att_wait")' = "error"
             => /\ pc'[p] = "failed"
                /\ loc'[p].msg = FailedMsg(pc[p]))]_vars

\* C17 is exercised: a snapshot-creation wait has ended on an 'error' status
\* that a poll returned before the deadline.
C17_Witness ==
    \E p \in Procs :
        /\ pc[p] = "failed"
        /\ loc[p].msg = "Failed to create volume snapshot"
        /\ loc[p].volume_snapshot.status = "error"
        /\ loc[p].t < max_time_to_create_volume

\* The labels at which a call is in one of the six waits, and what each
\* raises in the else clause of its loop.
WaitLabels == {"alloc_wait", "att_wait", "det_wait", "dealloc_wait",
               "snap_wait", "snapdel_wait"}

TimeoutMsg(label) ==
    CASE label = "alloc_wait" ->
           "Volume have not been created in %ss. Giving up"
      [] label = "att_wait" ->
           "Volume have not been attached in %ss. Giving up"
      [] label = "det_wait" ->
           "Volume have not been detached in %ss. Giving up"
      [] label = "dealloc_wait" ->
           "Volume have not been deleted in %ss. Giving up"
      [] label = "snap_wait" ->
           "Volume snapshot have not been created in %ss. Giving up"
      [] label = "snapdel_wait" ->
           "Volume snapshot have not been deleted in %ss. Giving up"

\* C18: every wait (volume create, attach, detach, volume delete, snapshot
\* create, snapshot delete) ends; the elapsed time it works with never
\* passes the budget; the timeout failure is raised exactly by the step
\* that finds the budget reached, and a step that finds it reached raises
\* nothing else.
C18_WaitsTerminate ==
    /\ [](\A p \in Procs :
            pc[p] \in WaitLabels => loc[p].t <= Budget(pc[p]))
    /\ [][\A p \in Procs :
            pc[p] \in WaitLabels /\ <<pc[p], loc[p]>> # <<pc[p], loc[p]>>'
            => /\ loc[p].t >= Budget(pc[p])
                  => /\ pc'[p] = "failed"
                     /\ loc'[p].msg = TimeoutMsg(pc[p])
               /\ loc[p].t < Budget(pc[p])
                  => /\ loc'[p].msg # TimeoutMsg(pc[p])
                     /\ pc'[p] = pc[p] => loc'[p].t > loc[p].t]_vars
    /\ \A p \in Procs : (pc[p] \in WaitLabels) ~> (pc[p] \notin WaitLabels)

\* C18 is exercised: a snapshot-deletion wait whose snapshot stayed in
\* 'deleting' has ended with the timeout failure at the budget.
C18_Witness ==
    \E p \in Procs :
        /\ pc[p] = "failed"
        /\ loc[p].msg = TimeoutMsg("snapdel_wait")
        /\ loc[p].t = max_time_to_create_volume
        /\ snaps[loc[p].volume_snapshot.id].status = "deleting"

\* What a wait raises on its deadline, and on a reported 'error' status.
TimeoutMsgs == {TimeoutMsg(l) : l \in WaitLabels}

FailedMsgs == {FailedMsg(l) : l \in ErrorWaits}

\* C19 (as the specification states it): a call that gave up a wait on its
\* deadline and a call whose wait was told 'error' by the backend end with
\* exceptions of different kinds.
C19_TimeoutKindDistinct ==
    \A p, q \in Procs :
        /\ pc[p] = "failed" /\ loc[p].msg \in TimeoutMsgs
        /\ pc[q] = "failed" /\ loc[q].msg \in FailedMsgs
        => loc[p].err # loc[q].err

\* Thread t1 made an allow_access call that returned, and thread t2 then
\* made the same call: same share, host, access type, level and client.
AllowTwice ==
    /\ ncalls = 2
    /\ op["t1"].kind = "allow_access" /\ op["t2"] = op["t1"]
    /\ pc["t1"] = "done"
    /\ "t1" \notin overlap["t2"]

NfsGranted(h, share, to) ==
    \E e \in nfs_exports :
        e[1] = h /\ e[2] = get_mount_path(share) /\ e[3] = to

CifsGranted(h, share, to) ==
    \E i \in 1..Len(hosts_allow[<<h, share>>]) :
        hosts_allow[<<h, share>>][i] = to

Granted(h, share, to) ==
    IF share_proto(share) = "NFS" THEN NfsGranted(h, share, to)
    ELSE CifsGranted(h, share, to)

\* The two calls of the run are allow_access calls for the same share on
\* the same host and for different clients, and both returned normally.
BothAllowed ==
    /\ ncalls = 2
    /\ \A p \in Procs : op[p].kind = "allow_access" /\ pc[p] = "done"
    /\ op["t1"].share = op["t2"].share
    /\ op["t1"].server = op["t2"].server
    /\ op["t1"].access.access_to # op["t2"].access.access_to

\* C21 (as the specification states it): after two successful allow_access
\* calls for different clients on the same host and share, both clients are
\* granted, for an NFS and for a CIFS share.
C21_NoLostGrant ==
    BothAllowed =>
        \A p \in Procs :
            Granted(op[p].server, op[p].share, op[p].access.access_to)

\* Thread p is between the read of the export table and the end of the
\* persist step of an NFS allow_access or deny_access.
InNfsCS(p) ==
    pc[p] \in {"nfs_allow_check", "nfs_allow_add", "nfs_deny_cmd", "nfs_sync"}

\* C22: two NFS allow_access or deny_access calls that are both between
\* reading the export table and finishing the persist step work on
\* different hosts, whatever shares they concern; a call in that section
\* holds the lock nfs-<host>.
C22_NfsCallsExclusive ==
    /\ \A p \in Procs :
          InNfsCS(p) => Holds(p, nfs_lock_name(op[p].server))
    /\ \A p, q \in Procs :
          p # q /\ InNfsCS(p) /\ InNfsCS(q) => op[p].server # op[q].server

\* C22 is exercised: an allow_access is in its critical section while a
\* deny_access for another share name on the same host waits for the lock.
C22_Witness ==
    \E p, q \in Procs :
        /\ op[p].kind = "allow_access" /\ InNfsCS(p)
        /\ op[q].kind = "deny_access" /\ pc[q] = "nfs_deny_lock"
        /\ op[q].server = op[p].server
        /\ op[q].share # op[p].share

\* The step thread p is at belongs to a deny_access whose client has no
\* grant on the share and host of the call, in the table of the helper that
\* runs it, and no other call has run concurrently with it.
DenyOfAbsent(p) ==
    /\ op[p].kind = "deny_access"
    /\ InCall(p)
    /\ overlap[p] = {}
    /\ IF pc[p] \in {"cifs_deny_get", "cifs_deny_set"}
       THEN ~CifsGranted(op[p].server, op[p].share, op[p].access.access_to)
       ELSE ~NfsGranted(op[p].server, op[p].share, op[p].access.access_to)

\* C23: no step of a deny_access for a client without a matching grant
\* changes the export table or a "hosts allow" list, with force set or not,
\* and such a call raises nothing but the failure of a remote command.
C23_DenyAbsentChangesNothing ==
    [][\A p \in Procs :
         DenyOfAbsent(p) /\ pc'[p] # pc[p]
         => /\ UNCHANGED <<nfs_exports, hosts_allow>>
            /\ pc'[p] = "failed" => loc'[p].err = "ProcessExecutionError"]_vars

\* C23 is exercised: a deny_access of the NFS helper for a client without
\* grant has returned normally on a host whose export table holds a grant
\* of another client for the same share.
C23_Witness ==
    \E p \in Procs :
        /\ op[p].kind = "deny_access" /\ pc[p] = "done"
        /\ overlap[p] = {}
        /\ LastIssued(p) = "nfs_sync"
        /\ ~NfsGranted(op[p].server, op[p].share, op[p].access.access_to)
        /\ \E e \in nfs_exports :
              /\ e[1] = op[p].server
              /\ e[2] = get_mount_path(op[p].share)
              /\ IsPrefix(op[p].access.access_to, e[3])

\* C24 (as the specification states it): a deny_access called with force
\* set never ends with the failure of a remote command, for the NFS and
\* for the CIFS helper.
C24_ForceSuppressesFailure ==
    \A p \in Procs :
        op[p].kind = "deny_access" /\ op[p].force /\ pc[p] = "failed"
        => loc[p].err # "ProcessExecutionError"

\* Thread p runs or ran an allow_access for an access type other than ip.
AllowOfOtherType(p) ==
    op[p].kind = "allow_access" /\ op[p].access.access_type # "ip"

\* C25: an allow_access for an access type other than ip issues no remote
\* command and changes no export table, exports file or "hosts allow" list,
\* for an NFS and for a CIFS share; it ends in failure, with
\* InvalidShareAccess once the helper is reached (before that the driver
\* can raise ServiceInstanceUnavailable, or InvalidShareAccessLevel for a
\* level that is neither rw nor ro).
C25_OtherTypeRejected ==
    /\ [](\A p \in Procs :
            AllowOfOtherType(p)
            => /\ log[p] = <<>>
               /\ pc[p] # "done"
               /\ pc[p] = "failed"
                  => \/ loc[p].err = "InvalidShareAccess"
                     \/ loc[p].err = "ServiceInstanceUnavailable"
                     \/ /\ loc[p].err = "InvalidShareAccessLevel"
                        /\ op[p].access.access_level \notin {"rw", "ro"})
    /\ [][\A p \in Procs :
            AllowOfOtherType(p) /\ pc'[p] # pc[p] /\ op'[p] = op[p]
            => UNCHANGED accessVars]_vars

\* C25 is exercised: an allow_access of type user was rejected by the NFS
\* helper and another by the CIFS helper, the latter with a level (ro) that
\* the CIFS helper does not accept either.
C25_Witness ==
    \E p, q \in Procs :
        /\ AllowOfOtherType(p) /\ share_proto(op[p].share) = "NFS"
        /\ pc[p] = "failed" /\ loc[p].err = "InvalidShareAccess"
        /\ AllowOfOtherType(q) /\ share_proto(op[q].share) = "CIFS"
        /\ op[q].access.access_level = "ro"
        /\ pc[q] = "failed" /\ loc[q].err = "InvalidShareAccess"

\* An export of the share exists on host h: a share section of its name
\* (CIFS), or an entry of its path in the export table (NFS).
ExportExists(h, share) ==
    IF share_proto(share) = "NFS"
    THEN \E e \in nfs_exports : e[1] = h /\ e[2] = get_mount_path(share)
    ELSE <<h, share>> \in exports

\* The recreate argument of the create_export that thread p runs.
Recreate(p) == op[p].kind = "ensure_share" \/ op[p].recreate

\* Thread p takes its create_export step.
CreateExportStep(p) == pc[p] = "export" /\ pc'[p] # pc[p]

MountedPath(h, path) == \E i \in 1..Len(mtab[h]) : mtab[h][i].path = path

\* Thread p has called the volume backend or the compute backend.
CalledBackend(p) ==
    \/ Issued(p, "volume_get")
    \/ Issued(p, "instance_volumes_list")
    \/ Issued(p, "volume_update")

\* C27: the step of manage_existing that looks for the mount path, when
\* nothing is mounted there, ends the call with ManageInvalidShare (or with
\* the failure of the listing command) and changes no volume; and a
\* manage_existing calls the volume or compute backend only after it found
\* its mount path mounted.
C27_ManageRequiresMount ==
    /\ [][\A p \in Procs :
            /\ pc[p] = "manage_probe" /\ pc'[p] # pc[p]
            /\ ~MountedPath(op[p].server, loc[p].mount_path)
            => /\ pc'[p] = "failed"
               /\ loc'[p].err \in {"ManageInvalidShare",
                                   "ProcessExecutionError"}
               /\ ~CalledBackend(p)'
               /\ UNCHANGED vols]_vars
    /\ [](\A p \in Procs :
            op[p].kind = "manage_existing" /\ CalledBackend(p)
            => MountedPath(op[p].server, loc[p].mount_path))

\* C27 is exercised: a manage_existing that was given a volume whose name
\* it would have changed has failed with ManageInvalidShare at the mount
\* listing, the path not being mounted.
C27_Witness ==
    \E p \in Procs :
        /\ op[p].kind = "manage_existing" /\ pc[p] = "failed"
        /\ loc[p].err = "ManageInvalidShare"
        /\ LastIssued(p) = "mount_list"
        /\ ~MountedPath(op[p].server, loc[p].mount_path)
        /\ op[p].volume_id # NoVol
        /\ vols[op[p].volume_id].status = "in-use"
        /\ vols[op[p].volume_id].name # get_volume_name(op[p].share)

\* The sizes that the disk-free reports can yield.
DfSizes == {get_mounted_share_size(lines) : lines \in DfOutputs} \ {-1}

\* C28: a manage_existing given a volume id fails with ManageInvalidShare
\* (or with the failure of the backend call) and renames nothing, at the
\* step that finds the volume missing and at the step that finds it not
\* attached to the host; when it returns, the size is the volume's size and
\* no disk-free report was asked for; without volume id the returned size
\* is the one of the disk-free report and no backend was called.
C28_ManageVolumeAndSize ==
    /\ [][\A p \in Procs :
            /\ (/\ pc[p] = "manage_volume" /\ pc'[p] # pc[p]
                /\ op[p].volume_id # NoVol
                /\ vols[op[p].volume_id].status = "absent"
                => /\ pc'[p] = "failed"
                   /\ loc'[p].err \in {"ManageInvalidShare", "BackendError"}
                   /\ UNCHANGED vols)
            /\ (/\ pc[p] = "manage_attached" /\ pc'[p] # pc[p]
                /\ op[p].volume_id \notin instance_volumes_list(op[p].server)
                => /\ pc'[p] = "failed"
                   /\ loc'[p].err \in {"ManageInvalidShare", "BackendError"}
                   /\ UNCHANGED vols)]_vars
    /\ [](\A p \in Procs :
            op[p].kind = "manage_existing" /\ pc[p] = "done"
            => IF op[p].volume_id # NoVol
               THEN /\ loc[p].size = volume_size(op[p].volume_id)
                    /\ ~Issued(p, "df")
               ELSE /\ loc[p].size \in DfSizes
                    /\ LastIssued(p) = "df"
                    /\ ~CalledBackend(p))

\* C28 is exercised: a manage_existing has failed with ManageInvalidShare
\* because its volume, which exists under another name, is attached to
\* another host, the mount path being mounted.
C28_Witness ==
    \E p \in Procs :
        /\ op[p].kind = "manage_existing" /\ pc[p] = "failed"
        /\ loc[p].err = "ManageInvalidShare"
        /\ LastIssued(p) = "instance_volumes_list"
        /\ vols[op[p].volume_id].status = "in-use"
        /\ vols[op[p].volume_id].host # op[p].server
        /\ vols[op[p].volume_id].name # get_volume_name(op[p].share)

\* C29: self.ssh_connections records for each host no session or one
\* session that was opened; the step that sends a command sends it on a
\* session that the call did not find inactive (it found it active or
\* opened it), the session being the one recorded for the host at that
\* moment; and a session found inactive has been closed.
C29_CommandOnLiveSession ==
    /\ [](\A h \in Hosts :
            ssh_connections[h] # NoSession
            => sessions[ssh_connections[h]] # "unused")
    /\ [](\A p \in Procs :
            /\ loc[p].found_dead # NoSession
               => /\ sessions[loc[p].found_dead] = "closed"
                  /\ loc[p].ssh # loc[p].found_dead
            /\ Issued(p, "ssh_execute") => loc[p].ssh # NoSession)
    /\ [][\A p \in Procs :
            pc'[p] = "ssh_run" /\ pc[p] # "ssh_run"
            => /\ loc'[p].ssh # NoSession
               /\ sessions'[loc'[p].ssh] = "active"
               /\ ssh_connections'[op[p].server] = loc'[p].ssh]_vars

\* C29 is exercised: a call found the session of its host inactive, closed
\* it, opened another one and ran its command on that.
C29_Witness ==
    \E p \in Procs :
        /\ op[p].kind = "_ssh_exec" /\ pc[p] = "done"
        /\ loc[p].found_dead # NoSession
        /\ ssh_connections[op[p].server] = loc[p].ssh

\* C30 (as the specification states it): every session that was opened and
\* not closed is the one recorded for some host: no session is dropped
\* from self.ssh_connections without being closed.
C30_NoSessionLeaked ==
    \A k \in SessIds :
        sessions[k] \in {"active", "dead"}
        => \E h \in Hosts : ssh_connections[h] = k

\* The volumes the backend lists for the volume name of the share of p's call.
Matches(p) == volumes_by_name(get_volume_name(op[p].share))

\* The steps of ensure_share, _detach_volume and _deallocate_container that
\* look the share's volume up.
LookupLabels == {"ensure_lookup", "det_check", "dealloc"}

\* C31: a step that looks a share's volume up while the backend lists several
\* volumes of its name ends the call in failure (ManilaException, or the
\* failure of the backend call itself), changes no volume, issues no detach
\* or delete and picks no volume; with exactly one match the step acts on
\* that volume only, and ensure_share goes on to attach it; with none the
\* step changes nothing and picks no volume, and ensure_share and
\* _deallocate_container return.
C31_AmbiguousLookupFails ==
    [][\A p \in Procs :
         pc[p] \in LookupLabels /\ pc'[p] # pc[p]
         => /\ Cardinality(Matches(p)) > 1
               => /\ pc'[p] = "failed"
                  /\ loc'[p].err \in {"ManilaException", "BackendError"}
                  /\ loc'[p].volume = loc[p].volume
                  /\ UNCHANGED <<vols, log>>
            /\ Cardinality(Matches(p)) = 1
               => /\ loc'[p].volume # loc[p].volume
                     => loc'[p].volume.id \in Matches(p)
                  /\ \A v \in VolIds \ Matches(p) : vols'[v] = vols[v]
                  /\ pc[p] = "ensure_lookup"
                     => \/ /\ pc'[p] = "att_lock"
                           /\ loc'[p].volume.id \in Matches(p)
                        \/ /\ pc'[p] = "failed"
                           /\ loc'[p].err = "BackendError"
            /\ Matches(p) = {}
               => /\ loc'[p].volume = loc[p].volume
                  /\ UNCHANGED <<vols, log>>
                  /\ \/ pc'[p] = "done" /\ pc[p] # "det_check"
                     \/ pc'[p] = "dealloc" /\ pc[p] = "det_check"
                     \/ pc'[p] = "failed" /\ loc'[p].err = "BackendError"]_vars

\* C31 is exercised: a delete_share on an active host has failed in
\* _detach_volume on the ambiguity of the share's volume name, both volumes
\* of that name being still there.
C31_Witness ==
    \E p \in Procs :
        /\ op[p].kind = "delete_share" /\ pc[p] = "failed"
        /\ loc[p].err = "ManilaException"
        /\ loc[p].active
        /\ Cardinality(Matches(p)) > 1
        /\ ~Issued(p, "volume_detach") /\ ~Issued(p, "volume_delete")

\* The hosts whose list of attached volumes holds volume v.
AttachedTo(v) == {h \in Hosts : v \in instance_volumes_list(h)}

\* C32, as stated: the volumes of a share are, together, in the
\* attached-volume list of at most one host.
C32_ShareAttachedToOneHost ==
    \A share \in Shares :
        Cardinality(UNION {AttachedTo(v) :
                             v \in volumes_by_name(get_volume_name(share))})
           <= 1

\* The volume of p's attach request is 'in-use' and in the list of volumes
\* attached to the target host.
InUseOnTarget(p) ==
    /\ pc[p] = "att_check"
    /\ loc[p].volume.status = "in-use"
    /\ loc[p].volume.id \in instance_volumes_list(op[p].server)

\* C33: the step of do_attach that finds its volume 'in-use' and attached to
\* the target host returns that volume: the call goes on to its next step
\* with the same volume, no attach call is issued and no volume changes,
\* unless the listing of the host's attached volumes itself fails.
C33_AttachToleratesTargetState ==
    [][\A p \in Procs :
         InUseOnTarget(p) /\ pc'[p] # pc[p]
         => /\ UNCHANGED <<vols, log>>
            /\ \/ /\ pc'[p] = after_attach(op[p].kind)
                  /\ loc'[p] = loc[p]
               \/ /\ pc'[p] = "failed"
                  /\ loc'[p].err = "BackendError"]_vars

\* C33 is exercised: a create_share gave up waiting for its attach, the
\* backend completed the attach later, and an ensure_share of the same share
\* on the same host has returned without an attach call of its own.
C33_Witness ==
    /\ op["t1"].kind = "create_share" /\ pc["t1"] = "failed"
    /\ loc["t1"].msg = "Volume have not been attached in %ss. Giving up"
    /\ op["t2"].kind = "ensure_share" /\ pc["t2"] = "done"
    /\ op["t2"].share = op["t1"].share
    /\ op["t2"].server = op["t1"].server
    /\ loc["t2"].volume = Volume(loc["t1"].volume.id, "in-use")
    /\ ~Issued("t2", "volume_attach")

\* C34, as stated: a _mount_device or _unmount_device call that has failed
\* on one of its remote commands (the mount-table listing, the
\* mkdir/mount/chmod command, the umount/rmdir command, cp or mount -a) has
\* failed with ShareBackendException.
C34_CommandFailureWrapped ==
    \A p \in Procs :
        /\ op[p].kind \in {"_mount_device", "_unmount_device"}
        /\ pc[p] = "failed"
        => loc[p].err = "ShareBackendException"

\* The code the claim designates as "already in the desired state" for a
\* call of the client.
Designated(kind) ==
    CASE kind = "offline_volume" -> EVOLUMEOFFLINE
      [] kind \in {"delete_nfs_export_policy", "soft_delete_nfs_export_policy",
                   "_remove_nfs_export_rules",
                   "_terminate_vserver_services"} -> EOBJECTNOTFOUND
      [] OTHER -> EDUPLICATEENTRY

\* C35, as stated: a call of the client whose request raised NaApiError has
\* returned normally only if the code is the one designated for the call;
\* with any other code the call has sent nothing but that request and has
\* raised the same NaApiError.
C35_OnlyDesignatedSwallowed ==
    \A p \in Procs :
        /\ op[p].kind \in ClientOps /\ Ended(p)
        /\ loc[p].e_code # None
        => IF loc[p].e_code = Designated(op[p].kind)
           THEN pc[p] = "done"
           ELSE /\ pc[p] = "failed"
                /\ loc[p].err = "NaApiError"
                /\ loc[p].code = loc[p].e_code
                /\ Len(log[p]) = 1

\* C36: a report_state returns; when its lookup of the service record
\* failed, model_disconnected is true afterwards and the report count is
\* unchanged; when the lookup succeeded, model_disconnected is false
\* afterwards, whatever it was before, and the report count has been raised
\* by exactly one, in one service_update.
C36_ReportStateTracksConnectivity ==
    [][\A p \in Procs :
         pc[p] = "report_state" /\ pc'[p] # pc[p]
         => /\ pc'[p] = "done"
            /\ IF loc'[p].err # None
               THEN /\ model_disconnected'
                    /\ report_count' = report_count
                    /\ log'[p] = <<"service_get">>
               ELSE /\ ~model_disconnected'
                    /\ report_count' = report_count + 1
                    /\ log'[p] = <<"service_get", "service_update">>]_vars

\* C36 is exercised: a report whose lookup failed was followed by a report
\* whose lookup succeeded, which cleared the flag and raised the count once.
C36_Witness ==
    /\ op["t1"].kind = "report_state" /\ pc["t1"] = "done"
    /\ loc["t1"].err = "Exception"
    /\ op["t2"].kind = "report_state" /\ pc["t2"] = "done"
    /\ loc["t2"].err = None
    /\ ~model_disconnected
    /\ report_count = 1

\* The named locks thread p holds.
LocksOf(p) == {e \in held : e[2] = p}

\* The steps at which a call waits for a named lock.
LockLabels == {"mnt_lock", "umnt_lock", "att_lock", "det_lock",
               "nfs_allow_lock", "nfs_deny_lock"}

\* C37: no call holds two named locks at once and a call that waits for a
\* lock holds none; and, every thread being scheduled, a call that waits for
\* a lock eventually has it.
C37_LocksNeverNestAndAreGranted ==
    /\ [](\A p \in Procs :
            /\ Cardinality(LocksOf(p)) <= 1
            /\ pc[p] \in LockLabels => LocksOf(p) = {})
    /\ \A p \in Procs : (pc[p] \in LockLabels) ~> (LocksOf(p) # {})

\* C37 is exercised: a call waits for the attach_detach lock of the host
\* while another call polls inside do_attach or do_detach with that lock.
C37_Witness ==
    \E p, q \in Procs :
        /\ pc[p] \in {"att_lock", "det_lock"}
        /\ pc[q] \in {"att_wait", "det_wait"}
        /\ op[p].server = op[q].server
        /\ loc[q].t > 0

\* C38, as stated: a volume-creation or snapshot-creation wait that has
\* failed with its timeout did not hold 'available' as the status returned
\* by its most recent poll.
C38_NoTimeoutWhenAvailable ==
    \A p \in Procs :
        /\ pc[p] = "failed"
        => /\ loc[p].msg = "Volume have not been created in %ss. Giving up"
              => loc[p].volume.status # "available"
           /\ loc[p].msg =
                 "Volume snapshot have not been created in %ss. Giving up"
              => loc[p].volume_snapshot.status # "available"

\* The number of volume delete calls in the log of p's call.
Deletes(p) == Cardinality({i \in 1..Len(log[p]) : log[p][i] = "volume_delete"})

\* C39: the step of _deallocate_container that finds the share's volume
\* 'in-use' ends the call in failure with ManilaException, issues no delete
\* and leaves the volume in-use; when the share has no volume the step
\* returns and nothing changes; when it goes on to wait it has issued the
\* one delete call of the operation; the wait returns only at a poll that
\* no longer finds the volume; and no call issues two deletes.  So a
\* delete_share with an inactive host and an in-use volume fails without any
\* command or backend call, the volume remaining.
C39_NeverDeletesAttachedVolume ==
    /\ [](\A p \in Procs : Deletes(p) <= 1)
    /\ [][\A p \in Procs :
             /\ pc[p] = "dealloc" /\ pc'[p] # pc[p]
                => /\ loc'[p].volume.status = "in-use"
                      => /\ pc'[p] = "failed"
                         /\ loc'[p].err = "ManilaException"
                         /\ log'[p] = log[p]
                         /\ vols'[loc'[p].volume.id].status = "in-use"
                         /\ ~loc[p].active => log'[p] = <<>>
                   /\ Matches(p) = {}
                      => /\ UNCHANGED <<vols, log>>
                         /\ pc'[p] \in {"done", "failed"}
                   /\ pc'[p] = "dealloc_wait"
                      => /\ log'[p] = Append(log[p], "volume_delete")
                         /\ Deletes(p) = 0
                         /\ loc'[p].volume.status # "in-use"
                   /\ pc'[p] = "done" => Matches(p) = {}
             /\ pc[p] = "dealloc_wait" /\ pc'[p] = "done"
                => vols'[loc[p].volume.id] = Absent]_vars

\* C39 is exercised: a delete_share with an inactive host has failed on the
\* in-use volume of the share, which is still attached, and issued nothing.
C39_Witness ==
    \E p \in Procs :
        /\ op[p].kind = "delete_share" /\ ~loc[p].active
        /\ pc[p] = "failed" /\ loc[p].err = "ManilaException"
        /\ log[p] = <<>>
        /\ loc[p].volume.status = "in-use"
        /\ vols[loc[p].volume.id].status = "in-use"

\* The calls that bring an existing volume, or one cloned from a snapshot,
\* back into service.
Reconciling == {"ensure_share", "create_share_from_snapshot"}

\* C40: the format command is issued only by create_share, once, after the
\* call itself created the volume and before it mounted it; ensure_share and
\* create_share_from_snapshot never issue it, whatever they go on to do.
C40_FormatOnlyByCreateShare ==
    /\ [](\A p \in Procs :
            /\ op[p].kind \in Reconciling => ~Issued(p, "mkfs")
            /\ Issued(p, "mkfs")
               => /\ op[p].kind = "create_share"
                  /\ Cardinality({i \in 1..Len(log[p]) :
                                     log[p][i] = "mkfs"}) = 1)
    /\ [][\A p \in Procs :
             log'[p] = Append(log[p], "mkfs")
             => /\ Issued(p, "volume_create")
                /\ ~Issued(p, "mount_cmd")
                /\ loc[p].volume.id \in VolIds]_vars

\* C40 is exercised: a reconciling call has attached and mounted the volume
\* and exported the share, and returned, without a format command.
C40_Witness ==
    \E p \in Procs :
        /\ op[p].kind \in Reconciling /\ pc[p] = "done"
        /\ Issued(p, "mount_cmd") /\ Issued(p, "create_export")
        /\ ~Issued(p, "mkfs")

====
